---- MODULE Spec2Model ----
(***************************************************************************)
(* A state-machine model of SPSSread.py (class SPSSFile): the record       *)
(* dispatcher GetRecords, the dictionary handlers GetRecordType1/2/3/7,    *)
(* and the data-matrix reader GetData with its cell decoders GetNumber and *)
(* GetString.                                                              *)
(*                                                                         *)
(* Representation of Python values:                                        *)
(*   - a byte string is a sequence of integers 0..255;                     *)
(*   - a float is named by its 8-byte image (struct.unpack("d") is         *)
(*     injective on the images used here);                                 *)
(*   - struct.unpack("i") is native order, taken to be little-endian;      *)
(*   - a value that can be of several Python types is a tagged record.     *)
(* An unhandled Python exception ends the run in pc = "crashed" with exc   *)
(* naming it; sys.exit(1) ends it in pc = "exit"; a process the operating  *)
(* system kills for the memory it fills ends in pc = "killed", no          *)
(* exception raised.                                                       *)
(***************************************************************************)
EXTENDS Integers, Sequences, FiniteSets, TLC

VARIABLES
    input,              \* the structured description the stream was built from (never read by the program)
    stream,             \* the bytes of the file self.fin reads
    mem,                \* the memory of the machine: [grant, phys, kill]
    fin,                \* self.fin is an open file object (FALSE: it is None)
    pos,                \* the read cursor of self.fin (bytes consumed so far)
    pc,                 \* "start" (GetRecords not called since the object was made or
                        \* the file was opened), "dict", "data", "done", "crashed", "exit",
                        \* "killed"; "direct": the caller has called handlers of
                        \* the object itself, outside GetRecords
    opens,              \* the calls of OpenFile made so far
    exc,                \* "" or the name of the exception that ended the run
    compressionswitch,  \* self.compressionswitch: the result of pkint, not its item
    numcases,           \* self.numcases: the result of pkint, not its item
    compressionbias,    \* self.compressionbias: the 8 raw bytes
    variablelist,       \* self.variablelist
    rawvarlist,         \* self.rawvarlist
    labelsets,          \* the {values, fields} list pairs created by GetRecordType3 so far
    documents,          \* self.documents
    SYSMIS,             \* self.SYSMIS: [set |-> FALSE, ...] while the attribute does not exist
    variablesets,       \* self.variablesets
    Other7,             \* self.Other7
    cluster,            \* self.cluster: [set, v], set FALSE until GetData assigns it
    casei,              \* GetData: the index of the case being read
    vari,               \* GetData: the index (0-based) of the variable whose cell is next
    closed,             \* the last call of GetRecords closed self.fin and released it
    printed,            \* the messages printed so far
    getrow,             \* the last call of GetRow: its argument and what it returned
    data0,              \* len(variable.data) of each variable when the call of
                        \* GetRecords in progress, or the last one made, began (history)
    hist,               \* one entry per completed call of GetRecordType2 (history)
    last                \* what the last step did (its reads, pops and result)

vars == <<input, stream, mem, fin, pos, pc, opens, exc, compressionswitch, numcases, compressionbias,
          variablelist, rawvarlist, labelsets, documents, SYSMIS, variablesets, Other7,
          cluster, casei, vari, closed, printed, getrow, data0, hist, last>>

(***************************************************************************)
(* Bounds of the inputs explored                                           *)
(***************************************************************************)
MaxRecs  == 3    \* dictionary records in a file of the "dict" family
MaxVars  == 2    \* variables in a file of the "cells" family
MaxCases == 3    \* cases in a file of the "cells" family
MaxCtl   == 3    \* leading control bytes enumerated in the "ctl" family
MaxCut   == 17   \* bytes cut off the end in the "cut" family
MaxOpens == 2    \* calls of OpenFile on one object
MaxCalls == 2    \* direct calls of the handlers on one object

(***************************************************************************)
(* Bytes and Python values                                                 *)
(***************************************************************************)
Byte == 0..255

Rep(b, n) == [i \in 1..n |-> b]

Abs(n) == IF n < 0 THEN -n ELSE n

Min(a, b) == IF a < b THEN a ELSE b

\* the largest value struct.unpack("i", ...) returns
MaxInt == 2147483647

(***************************************************************************)
(* Python computes sizes as integers of any length.  A size is kept here   *)
(* as [neg, mag]: its sign and its magnitude, the magnitude as six digits  *)
(* of base 32768, the least significant first.                             *)
(***************************************************************************)
Base == 2^15

\* the three digits of |n|, n a value of pkint (|n| <= 2^31)
Mag3(n) ==
    IF n < -MaxInt THEN <<0, 0, 2>>
    ELSE <<Abs(n) % Base, (Abs(n) \div Base) % Base, Abs(n) \div (Base * Base)>>

\* the digits of a sum of digit products per position
RECURSIVE Carry(_, _)
Carry(cs, c) ==
    IF cs = <<>> THEN <<c>>
    ELSE <<(cs[1] + c) % Base>> \o Carry(Tail(cs), (cs[1] + c) \div Base)

\* a * b for two values of pkint (or small constants), exactly
ReadSize(a, b) ==
    LET x == Mag3(a)
        y == Mag3(b)
    IN [neg |-> (a < 0) # (b < 0) /\ a # 0 /\ b # 0,
        mag |-> Carry(<<x[1] * y[1],
                        x[1] * y[2] + x[2] * y[1],
                        x[1] * y[3] + x[2] * y[2] + x[3] * y[1],
                        x[2] * y[3] + x[3] * y[2],
                        x[3] * y[3]>>, 0)]

\* x <= y for two magnitudes, compared from digit i down
RECURSIVE MagLE(_, _, _)
MagLE(x, y, i) ==
    IF i = 0 THEN TRUE
    ELSE IF x[i] # y[i] THEN x[i] < y[i]
    ELSE MagLE(x, y, i - 1)

\* the integer a magnitude below 2^30 stands for
Small(m) == m[1] + Base * m[2]

\* sizes of memory: about 1 GiB, 12 GiB, 16 GiB and 2^47 bytes
Mem1G  == ReadSize(32768, 32768).mag
Mem12G == ReadSize(MaxInt, 6).mag
Mem16G == ReadSize(MaxInt, 8).mag
Mem47  == ReadSize(MaxInt, 65536).mag

\* The machine the program runs on decides what a large allocation does:
\*   grant  the largest single request malloc grants (a larger one fails,
\*          and Python raises MemoryError);
\*   phys   the memory the process can fill;
\*   kill   what happens when the process fills more than phys by many small
\*          requests: TRUE, the operating system kills it (no exception is
\*          raised, nothing runs after); FALSE, a request fails and Python
\*          raises MemoryError.
\* A limited machine, a machine that overcommits, and one with room for all.
Mach1G  == [grant |-> Mem1G,  phys |-> Mem1G,  kill |-> FALSE]
Mach16G == [grant |-> Mem16G, phys |-> Mem12G, kill |-> TRUE]
Mach47  == [grant |-> Mem47,  phys |-> Mem47,  kill |-> FALSE]

PyInt(n)    == [k |-> "int",   n |-> n, b |-> <<>>]
PyFloat(bs) == [k |-> "float", n |-> 0, b |-> bs]
PyStr(bs)   == [k |-> "str",   n |-> 0, b |-> bs]
PyNone      == [k |-> "None",  n |-> 0, b |-> <<>>]

\* the string "False" that GetNumber returns and GetData compares with
FalseStr == PyStr(<<70, 97, 108, 115, 101>>)

\* the float literal 0.0
Zero8 == Rep(0, 8)

\* an attribute that has not been assigned
Unset == [set |-> FALSE, v |-> <<>>]

\* self.compressionswitch and self.numcases before GetRecordType1 has assigned
\* them (__init__ does not): reading the attribute raises AttributeError
NoAttr == [tuple |-> FALSE, v |-> 0, unset |-> TRUE]

HasAttr(x) == "unset" \notin DOMAIN x

\* the None a method returns, as the result of a call of GetRow
RowNone == [k |-> "None", v |-> <<>>]

\* the placeholder appended to rawvarlist when there is no previous raw index (None)
NoneIdx == 0

(***************************************************************************)
(* Primitive decoders                                                      *)
(***************************************************************************)
\* struct.unpack("i", vv) on 4 bytes
Int32(vv) ==
    vv[1] + 256 * vv[2] + 65536 * vv[3]
      + 16777216 * (IF vv[4] >= 128 THEN vv[4] - 256 ELSE vv[4])

\* a decoder whose failure value is a tuple like its result
pkintZeroTuple(vv) ==
    [tuple |-> TRUE, v |-> IF Len(vv) = 4 THEN Int32(vv) ELSE 0]

\* pkint: a 1-tuple holding the integer, or the integer 0 when unpack raises
pkint(vv) ==
    IF Len(vv) = 4 THEN [tuple |-> TRUE, v |-> Int32(vv)]
    ELSE [tuple |-> FALSE, v |-> 0]

\* pkflt: a 1-tuple holding the float, or the float 0.0 when unpack raises
pkflt(vv) ==
    IF Len(vv) = 8 THEN [tuple |-> TRUE, v |-> vv]
    ELSE [tuple |-> FALSE, v |-> Zero8]

\* pkstr: the bytes of vv, one by one (struct.unpack("s", i)[0] is i)
pkstr(vv) == [i \in 1..Len(vv) |-> vv[i]]

(***************************************************************************)
(* The file object.  A handler is an operator on a record s of the fields  *)
(* it may change; s.buf is what the last read returned, s.ret the value    *)
(* the last call returned, s.exc the exception raised ("" for none).       *)
(***************************************************************************)
\* what self.fin.read(N) does at cursor p, N a size.  No file object:
\* AttributeError.  A negative size reads all the rest.  Otherwise read
\* allocates N bytes before it reads: MemoryError, the cursor left where it
\* was, when the machine does not grant a request of that size (m); else the
\* N bytes, or those left.
Fetch(p, f, m, N) ==
    IF ~f THEN [buf |-> <<>>, pos |-> p, exc |-> "AttributeError"]
    ELSE IF N.neg THEN [buf |-> SubSeq(stream, p + 1, Len(stream)),
                        pos |-> Len(stream), exc |-> ""]
    ELSE IF ~MagLE(N.mag, m, 6) THEN [buf |-> <<>>, pos |-> p, exc |-> "MemoryError"]
    ELSE IF ~MagLE(N.mag, Mag3(Len(stream) - p) \o <<0, 0, 0>>, 6)
      THEN [buf |-> SubSeq(stream, p + 1, Len(stream)), pos |-> Len(stream), exc |-> ""]
    ELSE [buf |-> SubSeq(stream, p + 1, p + Small(N.mag)),
          pos |-> p + Small(N.mag), exc |-> ""]

\* self.fin.read(N): s with the bytes read, the cursor and the exception of Fetch
readN(s, N) == Fetch(s.pos, s.fin, s.mem.grant, N) @@ s

\* the largest request of at most MaxInt bytes that the machine grants
MemInt ==
    IF mem.grant[4] + mem.grant[5] + mem.grant[6] > 0 \/ mem.grant[3] >= 2 THEN MaxInt
    ELSE mem.grant[1] + Base * mem.grant[2] + Base * Base * mem.grant[3]

\* self.fin.read(n), n a value of pkint or a constant
read(s, n) ==
    IF ~s.fin THEN [s EXCEPT !.exc = "AttributeError"]
    ELSE IF n < 0 THEN [s EXCEPT !.buf = SubSeq(stream, s.pos + 1, Len(stream)), !.pos = Len(stream)]
    ELSE IF n > MemInt THEN [s EXCEPT !.exc = "MemoryError"]
    ELSE [s EXCEPT !.buf = SubSeq(stream, s.pos + 1, s.pos + Min(n, Len(stream) - s.pos)),
                   !.pos = s.pos + Min(n, Len(stream) - s.pos)]

\* range(n) (a 64-bit build): the list of n pointers is one request of 8 * n
\* bytes, and the n int objects it is then filled with take 24 bytes each,
\* requested a block at a time.  The outcome is "" (the list is built), or
\* "MemoryError", or "SIGKILL": the process is killed while it fills the list.
\* (The list has |n| items.)
ListOutcome(m, n) ==
    IF n = 0 THEN ""
    ELSE IF ~MagLE(ReadSize(8, n).mag, m.grant, 6) THEN "MemoryError"
    ELSE IF MagLE(ReadSize(32, n).mag, m.phys, 6) THEN ""
    ELSE IF m.kill THEN "SIGKILL"
    ELSE "MemoryError"

\* range(n) builds its list before the loop runs
range(s, n) ==
    IF n <= 0 \/ ListOutcome(s.mem, n) = "" THEN s
    ELSE [s EXCEPT !.exc = ListOutcome(s.mem, n)]

\* for i in range(abs(n)): self.fin.read(8), the bytes not kept: the cursor
\* moves by 8 * abs(n) bytes, or to the end of the stream
read8s(s, n) ==
    LET left == Len(stream) - s.pos
        N == ReadSize(8, n).mag
        k == IF MagLE(N, Mag3(left) \o <<0, 0, 0>>, 6) THEN Small(N) ELSE left
    IN IF s.exc # "" \/ n = 0 THEN s
       ELSE IF ListOutcome(s.mem, n) # "" THEN [s EXCEPT !.exc = ListOutcome(s.mem, n)]
       ELSE IF ~s.fin THEN [s EXCEPT !.exc = "AttributeError"]
       ELSE [s EXCEPT !.buf = SubSeq(stream, s.pos + 1, s.pos + Min(k, 8)),
                      !.pos = s.pos + k]

\* the first newline among the next n bytes at cursor p, or 0
RECURSIVE NewlineAt(_, _, _)
NewlineAt(p, i, n) ==
    IF i > n \/ p + i > Len(stream) THEN 0
    ELSE IF stream[p + i] = 10 THEN i
    ELSE NewlineAt(p, i + 1, n)

\* self.fin.readline(n): at most n bytes, ending after the first newline
readline(s, n) ==
    LET nl == NewlineAt(s.pos, 1, n)
    IN read(s, IF nl > 0 THEN nl ELSE n)

Raise(s, e) == [s EXCEPT !.exc = e]

\* pkint(...)[0] of what a read left in r: the exception of the read, or
\* TypeError on a short read (0 is not subscriptable)
IntOf(r) ==
    IF r.exc # "" THEN r
    ELSE IF pkint(r.buf).tuple THEN [r EXCEPT !.ret = pkint(r.buf).v]
    ELSE Raise([r EXCEPT !.shortint = Len(r.buf) < 4], "TypeError")

\* pkint(self.fin.read(4))[0]
readint(s) == IntOf(read(s, 4))

\* pkflt(...)[0] of what a read left in r
FltOf(r) ==
    IF r.exc # "" THEN r
    ELSE IF pkflt(r.buf).tuple THEN [r EXCEPT !.fret = pkflt(r.buf).v]
    ELSE Raise(r, "TypeError")

\* pkflt(self.fin.read(8))[0]: TypeError on a short read
readflt(s) == FltOf(read(s, 8))

\* the record of the fields a handler works on, at the current state
Cur ==
    [fin |-> fin, mem |-> mem, pos |-> pos, exc |-> "", buf |-> <<>>, ret |-> 0, fret |-> <<>>,
     val |-> PyNone,
     compressionswitch |-> compressionswitch, numcases |-> numcases,
     compressionbias |-> compressionbias,
     variablelist |-> variablelist, rawvarlist |-> rawvarlist,
     labelsets |-> labelsets, documents |-> documents, SYSMIS |-> SYSMIS,
     variablesets |-> variablesets, Other7 |-> Other7, cluster |-> cluster,
     printed |-> printed,
     popped |-> <<>>, refills |-> 0, raws |-> 0, short |-> FALSE,
     pairs |-> <<>>, inds |-> <<>>, shortint |-> FALSE, acc |-> <<>>, passes |-> <<>>,
     blocks |-> <<>>, rawat |-> <<>>, blockend |-> last.blockend,
     rawsince |-> last.rawsince]

(***************************************************************************)
(* GetRecordType1: the file header                                         *)
(***************************************************************************)
\* line 152 raises AttributeError when self.fin is None
GetRecordType1(s) ==
    IF ~s.fin THEN Raise(s, "AttributeError") ELSE
    LET a == read(read(s, 4), 60)    \* recordtype, eyecatcher
        b == read(a, 4)              \* filelayoutcode
        c == read(b, 4)              \* numOBSelements
        d == read(c, 4)              \* compressionswitch
        e == read(d, 4)              \* caseweightvar
        f == read(e, 4)              \* numcases
        g == read(f, 8)              \* compressionbias
        h == read(g, 84)             \* metastr
    IN [h EXCEPT !.compressionswitch = pkint(d.buf),
                 !.numcases = pkint(f.buf),
                 !.compressionbias = g.buf]

(***************************************************************************)
(* GetRecordType2: one variable definition, or one continuation slot       *)
(***************************************************************************)
\* GetPrintWriteCode: the format abbreviation of a code ("None" for an unknown
\* code); the meaning that comes with it is determined by the abbreviation.
GetPrintWriteCode(code) ==
    CASE code = 0 -> ""
      [] code = 1 -> "A"
      [] code = 2 -> "AHEX"
      [] code = 3 -> "COMMA"
      [] code = 4 -> "DOLLAR"
      [] code = 5 -> "F"
      [] code = 6 -> "IB"
      [] code = 7 -> "PIBHEX"
      [] code = 8 -> "P"
      [] code = 9 -> "PIB"
      [] code = 10 -> "PK"
      [] code = 11 -> "RB"
      [] code = 12 -> "RBHEX"
      [] code = 15 -> "Z"
      [] code = 16 -> "N"
      [] code = 17 -> "E"
      [] code = 20 -> "DATE"
      [] code = 21 -> "TIME"
      [] code = 22 -> "DATETIME"
      [] code = 23 -> "ADATE"
      [] code = 24 -> "JDATE"
      [] code = 25 -> "DTIME"
      [] code = 26 -> "WKDAY"
      [] code = 27 -> "MONTH"
      [] code = 28 -> "MOYR"
      [] code = 29 -> "QYR"
      [] code = 30 -> "WKYR"
      [] code = 31 -> "PCT"
      [] code = 32 -> "DOT"
      [] code >= 33 /\ code <= 37 -> "CCA-CCE"
      [] code = 38 -> "EDATE"
      [] code = 39 -> "SDATE"
      [] OTHER -> "None"

\* variable.__init__, with the attributes GetRecordType2 and GetType711 add
\* later in their not-yet-assigned form.  missingd and missingr are tagged:
\* k = "list" (v its items), "None", "float" (v = <<the float>>), "tuple"
\* (v its two items, <<>> standing for None).
variable ==
    [name |-> <<>>, typecode |-> 0, type |-> "", labelmarker |-> 0,
     missingmarker |-> 0, decplaces |-> 0, colwidth |-> 0, formattype |-> "",
     decplaces_wrt |-> 0, colwidth_wrt |-> 0, formattype_wrt |-> "",
     label |-> <<>>, labellength |-> 0,
     missingd |-> [k |-> "list", v |-> <<>>],
     missingr |-> [k |-> "list", v |-> <<>>],
     missings |-> FALSE,
     data |-> <<>>, labelvalues |-> <<>>, labelfields |-> <<>>, labelset |-> 0,
     measure |-> "", displaywidth |-> 0, align |-> ""]

\* a loop that stops one value early
RECURSIVE ReadFloatsOneLess(_, _, _)
ReadFloatsOneLess(s, n, acc) ==
    IF n <= 1 THEN [s |-> s, vals |-> acc]
    ELSE LET r == readflt(s)
         IN IF r.exc # "" THEN [s |-> r, vals |-> acc]
            ELSE ReadFloatsOneLess(r, n - 1, Append(acc, r.fret))

\* n times: IN = pkflt(self.fin.read(8))[0]; tmpmiss.append(IN)
RECURSIVE ReadFloats(_, _, _)
ReadFloats(s, n, acc) ==
    IF n <= 0 THEN [s |-> s, vals |-> acc]
    ELSE LET r == readflt(s)
         IN IF r.exc # "" THEN [s |-> r, vals |-> acc]
            ELSE ReadFloats(r, n - 1, Append(acc, r.fret))

\* the missing-value part of GetRecordType2 (lines 201-224): the skip loop and
\* then the branch on the marker.  x is the variable being built.
MissingValues(s, x) ==
    LET mm == x.missingmarker
        sk == read8s(s, mm)
    IN IF sk.exc # "" THEN [s |-> sk, x |-> x]
       ELSE IF mm = 0
         THEN [s |-> sk,
               x |-> [x EXCEPT !.missingd = [k |-> "None", v |-> <<>>],
                               !.missingr = [k |-> "tuple", v |-> << <<>>, <<>> >>]]]
       ELSE IF mm = -2 \/ mm = -3
         THEN LET r == ReadFloats(sk, 2, <<>>)
              IN IF r.s.exc # "" THEN [s |-> r.s, x |-> x]
                 ELSE LET x1 == [x EXCEPT !.missingr = [k |-> "tuple", v |-> r.vals]]
                      IN IF mm = -3
                           THEN LET d == readflt(r.s)
                                IN IF d.exc # "" THEN [s |-> d, x |-> x1]
                                   ELSE [s |-> d,
                                         x |-> [x1 EXCEPT !.missingd =
                                                   [k |-> "float", v |-> <<d.fret>>]]]
                           ELSE [s |-> r.s, x |-> [x1 EXCEPT !.missings = TRUE]]
       ELSE IF mm > 0 /\ mm < 4
         THEN LET r == ReadFloats(sk, mm, <<>>)
              IN IF r.s.exc # "" THEN [s |-> r.s, x |-> x]
                 ELSE [s |-> r.s,
                       x |-> [x EXCEPT !.missingd = [k |-> "list", v |-> r.vals],
                                       !.missingr = [k |-> "None", v |-> <<>>]]]
       ELSE [s |-> sk, x |-> x]

\* nameblankflag: no byte of the name differs from a space
NameBlank(name) == \A i \in 1..Len(name) : name[i] = 32

\* the optional label of GetRecordType2 (lines 192-200)
VarLabel(s, x) ==
    IF x.labelmarker = 1
      THEN LET a == readint(s)
           IN IF a.exc # "" THEN [s |-> a, x |-> x]
              ELSE LET n == a.ret
                       \* n, or n + 4 - (n % 4): the next multiple of 4
                       padded == ReadSize(4, (n \div 4) + (IF n % 4 # 0 THEN 1 ELSE 0))
                       b == readN(a, padded)
                   IN IF b.exc # "" THEN [s |-> b, x |-> x]
                      ELSE [s |-> b, x |-> [x EXCEPT !.labellength = n,
                                                     !.label = pkstr(b.buf)]]
      ELSE [s |-> s, x |-> [x EXCEPT !.label = <<>>]]

\* the variable is registered under the number of its dictionary slot
AppendVariableRawSlot(s, x) ==
    IF ~NameBlank(x.name)
      THEN [s EXCEPT !.variablelist = Append(@, x),
                     !.rawvarlist = Append(@, Len(s.rawvarlist) + 1)]
      ELSE s

\* the variable is registered whatever its name
AppendVariableAlways(s, x) ==
    [s EXCEPT !.variablelist = Append(@, x),
              !.rawvarlist = Append(@, Len(s.variablelist) + 1)]

\* lines 225-227
AppendVariable(s, x) ==
    IF ~NameBlank(x.name)
      THEN [s EXCEPT !.variablelist = Append(@, x),
                     !.rawvarlist = Append(@, Len(s.variablelist) + 1)]
      ELSE s

\* lines 173-227: a record that is not a continuation slot
Type2Variable(s, typecode) ==
    LET a == readint(s)                       \* labelmarker
    IN IF a.exc # "" THEN a ELSE
    LET b == readint(a)                       \* missingmarker
    IN IF b.exc # "" THEN b ELSE
    LET c == read(b, 4)                       \* print format
    IN IF Len(c.buf) < 3 THEN Raise(c, "IndexError") ELSE
    LET d == read(c, 4)                       \* write format
    IN IF Len(d.buf) < 3 THEN Raise(d, "IndexError") ELSE
    LET e == read(d, 8)                       \* name
        x == [variable EXCEPT
                !.typecode = typecode, !.type = "String",
                !.labelmarker = a.ret, !.missingmarker = b.ret,
                !.decplaces = c.buf[1], !.colwidth = c.buf[2],
                !.formattype = GetPrintWriteCode(c.buf[3]),
                !.decplaces_wrt = d.buf[1], !.colwidth_wrt = d.buf[2],
                !.formattype_wrt = GetPrintWriteCode(d.buf[3]),
                !.name = pkstr(e.buf)]
        l == VarLabel(e, x)
    IN IF l.s.exc # "" THEN l.s ELSE
    LET m == MissingValues(l.s, l.x)
    IN IF m.s.exc # "" THEN m.s ELSE AppendVariable(m.s, m.x)

\* a continuation slot that records its own slot number
Type2ContinuationOwnSlot(s) ==
    read([s EXCEPT !.rawvarlist = Append(@, Len(s.rawvarlist) + 1)], 24)

\* lines 228-234: a continuation slot repeats the previous raw index
Type2Continuation(s) ==
    LET prev == IF Len(s.rawvarlist) > 0 THEN s.rawvarlist[Len(s.rawvarlist)]
                ELSE NoneIdx
    IN read([s EXCEPT !.rawvarlist = Append(@, prev)], 24)

GetRecordType2(s) ==
    LET t == readint(s)                       \* typecode
    IN IF t.exc # "" THEN t
       ELSE IF t.ret # -1 THEN Type2Variable(t, t.ret)
       ELSE Type2Continuation(t)

(***************************************************************************)
(* GetRecordType3: a value-label block and the index block that follows it *)
(***************************************************************************)
\* lst[j] for a Python list of n items: the 1-based position, or 0 for IndexError
PyIndex(n, j) ==
    IF j >= 0 /\ j < n THEN j + 1
    ELSE IF j < 0 /\ j >= -n THEN n + j + 1
    ELSE 0

print(s, msg) == [s EXCEPT !.printed = Append(@, msg)]

\* lines 249-257: the {value, label} pairs
RECURSIVE LabelPairs(_, _, _, _)
LabelPairs(s, n, values, fields) ==
    IF n <= 0 THEN [s |-> s, values |-> values, fields |-> fields]
    ELSE LET a == readflt(s)
         IN IF a.exc # "" THEN [s |-> a, values |-> values, fields |-> fields] ELSE
         LET b == read(a, 1)
         IN IF Len(b.buf) = 0
              THEN [s |-> Raise(b, "TypeError"), values |-> Append(values, a.fret),
                    fields |-> fields]
            ELSE
         LET l0 == b.buf[1]
             l == IF l0 % 8 # 0 THEN l0 + 8 - (l0 % 8) ELSE l0
             c == read(b, l - 1)
             c1 == [c EXCEPT !.pairs = Append(@, [from |-> s.pos, l |-> l0, to |-> c.pos])]
         IN LabelPairs(c1, n - 1, Append(values, a.fret), Append(fields, pkstr(c.buf)))

\* lines 264-267: the raw indexes of the index block
RECURSIVE LabelIndexes(_, _, _)
LabelIndexes(s, n, acc) ==
    IF n <= 0 THEN [s |-> s, inds |-> acc]
    ELSE LET r == readint(s)
         IN IF r.exc # "" THEN [s |-> r, inds |-> acc]
            ELSE LabelIndexes(r, n - 1, Append(acc, r.ret))

\* lines 268-271: attach the lists to each referenced variable, in order
RECURSIVE AttachLabels(_, _, _, _, _)
AttachLabels(s, inds, values, fields, id) ==
    IF inds = <<>> THEN s
    ELSE LET r == PyIndex(Len(s.rawvarlist), inds[1] - 1)
         IN IF r = 0 THEN Raise(s, "IndexError") ELSE
         LET ind == s.rawvarlist[r]
         IN IF ind = NoneIdx THEN Raise(s, "TypeError") ELSE
         LET v == PyIndex(Len(s.variablelist), ind - 1)
         IN IF v = 0 THEN Raise(s, "IndexError") ELSE
            AttachLabels(
                [s EXCEPT !.variablelist[v].labelvalues = values,
                          !.variablelist[v].labelfields = fields,
                          !.variablelist[v].labelset = id],
                Tail(inds), values, fields, id)

\* lines 259-275: the tag that follows the pairs, and the index block
Type4(s, values, fields) ==
    LET t == readint(s)
    IN IF t.exc # "" THEN t ELSE
       IF t.ret = 4
         THEN LET n == readint(t)
              IN IF n.exc # "" THEN n ELSE
                 IF range(n, n.ret).exc # "" THEN range(n, n.ret) ELSE
              LET li == LabelIndexes(n, n.ret, <<>>)
              IN IF li.s.exc # "" THEN li.s ELSE
              LET id == Len(li.s.labelsets) + 1
                  s1 == [li.s EXCEPT !.labelsets =
                            Append(@, [values |-> values, fields |-> fields]),
                                     !.inds = li.inds]
              IN AttachLabels(s1, li.inds, values, fields, id)
         ELSE print(t, "Invalid subtype")

GetRecordType3(s) ==
    LET n == readint(s)
    IN IF n.exc # "" THEN n ELSE
    LET g == range(n, n.ret)
    IN IF g.exc # "" THEN g ELSE
    LET lp == LabelPairs(g, n.ret, <<>>, <<>>)
    IN IF lp.s.exc # "" THEN lp.s ELSE Type4(lp.s, lp.values, lp.fields)

(***************************************************************************)
(* GetRecordType6 (never called by GetRecords)                             *)
(***************************************************************************)
GetRecordType6(s) ==
    LET n == readint(s)
    IN IF n.exc # "" THEN n ELSE
    LET d == readN(n, ReadSize(80, n.ret))
    IN IF d.exc # "" THEN d ELSE [d EXCEPT !.documents = pkstr(d.buf)]

(***************************************************************************)
(* GetRecordType7 and its subtype handlers                                 *)
(***************************************************************************)
\* pkint(self.fin.read(4))[0] n times, the values not kept
RECURSIVE SkipInts(_, _)
SkipInts(s, n) ==
    IF n <= 0 THEN s
    ELSE LET r == readint(s)
         IN IF r.exc # "" THEN r ELSE SkipInts(r, n - 1)

\* lst[pkint(self.fin.read(4))[0] + off] for a list of n items
readenum(s, n, off) ==
    LET r == readint(s)
    IN IF r.exc # "" THEN r
       ELSE IF PyIndex(n, r.ret + off) = 0 THEN Raise(r, "IndexError")
       ELSE r

\* the datatype and numelements fields every subtype starts with
Type7Head(s) ==
    LET a == readint(s)
    IN IF a.exc # "" THEN [s |-> a, datatype |-> 0, numelements |-> 0] ELSE
    LET b == readint(a)
    IN [s |-> b, datatype |-> a.ret, numelements |-> b.ret]

GetType73(s) ==
    LET h == Type7Head(s)
    IN IF h.s.exc # "" THEN h.s ELSE
       IF h.numelements = 8
         THEN LET a == SkipInts(h.s, 4)        \* release numbers, machine code
              IN IF a.exc # "" THEN a ELSE
              LET b == readenum(a, 3, -1)      \* FPrep
              IN IF b.exc # "" THEN b ELSE
              LET c == readint(b)              \* compressionscheme
              IN IF c.exc # "" THEN c ELSE
              LET d == readenum(c, 2, -1)      \* endian
              IN IF d.exc # "" THEN d ELSE readenum(d, 4, -1)   \* charrep
         ELSE print(h.s, "Error reading type 7/3")

\* pkflt(self.fin.readline(8))[0]
readlineflt(s) == FltOf(readline(s, 8))

GetType74(s) ==
    LET h == Type7Head(s)
    IN IF h.s.exc # "" THEN h.s ELSE
       IF h.numelements = 3 /\ h.datatype = 8
         THEN LET a == readlineflt(h.s)
              IN IF a.exc # "" THEN a ELSE
              LET a1 == [a EXCEPT !.SYSMIS = [set |-> TRUE, v |-> a.fret]]
                  b == readlineflt(a1)         \* himissingval
              IN IF b.exc # "" THEN b ELSE readlineflt(b)       \* lomissingval
         ELSE print(h.s, "Error reading type 7/4")

GetType75(s) ==
    LET h == Type7Head(s)
    IN IF h.s.exc # "" THEN h.s ELSE
    LET r == readN(h.s, ReadSize(4, h.numelements))
    IN IF r.exc # "" THEN r
       ELSE [r EXCEPT !.variablesets = [set |-> TRUE, v |-> pkstr(r.buf)]]

\* the date-variable loop stops in its first pass: GetDateVar indexes a list
\* with the 4 bytes read, which raises TypeError
GetType76(s) ==
    LET h == Type7Head(s)
    IN IF h.s.exc # "" THEN h.s ELSE
    LET a == SkipInts(h.s, 2)                  \* explicitperiodflag, period
    IN IF a.exc # "" THEN a ELSE
    LET n == readint(a)                        \* numdatevars
    IN IF n.exc # "" THEN n ELSE
    LET b == SkipInts(n, 3)                    \* lowestincr, higheststart, datevarsmarker
    IN IF b.exc # "" THEN b ELSE
       IF n.ret >= 1
         THEN LET c == readint(b)
              IN IF c.exc # "" THEN c ELSE Raise(read(c, 4), "TypeError")
         ELSE b

\* pkint(self.fin.read(n))[0]
readintn(s, n) == IntOf(read(s, n))

MeasureName(i) == <<"Nominal", "Ordinal", "Continuous">>[i]
AlignName(i) == <<"Left", "Right", "Centre">>[i]

RECURSIVE Type711Loop(_, _, _, _)
Type711Loop(s, ind, n, datatype) ==
    IF ind >= n THEN s
    ELSE IF ind >= Len(s.variablelist) THEN Raise(s, "IndexError") ELSE
    LET a == readintn(s, datatype)
    IN IF a.exc # "" THEN a ELSE
       IF PyIndex(3, a.ret - 1) = 0 THEN Raise(a, "IndexError") ELSE
    LET a1 == [a EXCEPT !.variablelist[ind + 1].measure = MeasureName(PyIndex(3, a.ret - 1))]
        b == readintn(a1, datatype)
    IN IF b.exc # "" THEN b ELSE
    LET b1 == [b EXCEPT !.variablelist[ind + 1].displaywidth = b.ret]
        c == readintn(b1, datatype)
    IN IF c.exc # "" THEN c ELSE
       IF PyIndex(3, c.ret) = 0 THEN Raise(c, "IndexError") ELSE
       Type711Loop([c EXCEPT !.variablelist[ind + 1].align = AlignName(PyIndex(3, c.ret))],
                   ind + 1, n, datatype)

GetType711(s) ==
    LET h == Type7Head(s)
    IN IF h.s.exc # "" THEN h.s
       ELSE IF range(h.s, h.numelements \div 3).exc # ""
         THEN range(h.s, h.numelements \div 3)
       ELSE Type711Loop(h.s, 0, h.numelements \div 3, h.datatype)

\* the loop over the bytes read builds two local strings and changes nothing
GetType713(s) ==
    LET h == Type7Head(s)
    IN IF h.s.exc # "" THEN h.s ELSE read(h.s, h.numelements)

GetType7other(s) ==
    LET h == Type7Head(s)
    IN IF h.s.exc # "" THEN h.s ELSE
    LET r == readN(h.s, ReadSize(h.datatype, h.numelements))
    IN IF r.exc # "" THEN r ELSE [r EXCEPT !.Other7 = [set |-> TRUE, v |-> r.buf]]

GetRecordType7(s) ==
    LET t == readint(s)
    IN IF t.exc # "" THEN t
       ELSE CASE t.ret = 3 -> GetType73(t)
              [] t.ret = 4 -> GetType74(t)
              [] t.ret = 5 -> GetType75(t)
              [] t.ret = 6 -> GetType76(t)
              [] t.ret = 11 -> GetType711(t)
              [] t.ret = 13 -> GetType713(t)
              [] OTHER -> GetType7other(t)

(***************************************************************************)
(* The cell decoders GetNumber and GetString                               *)
(* Ghost fields of s: popped (the control bytes popped by this call),      *)
(* refills (reads that refilled the cluster), raws (raw 8-byte reads for a *)
(* cell), short (a raw read returned no byte), pairs (the cursor before    *)
(* and after each value-label pair, and its length prefix), inds (the raw  *)
(* indexes of an accepted index block), shortint (a read for a 4-byte      *)
(* integer returned fewer than 4 bytes), acc (the length of the string     *)
(* accumulated after each control byte on which GetString went on),        *)
(* blocks (the control blocks read: where, their bytes, and how many bytes *)
(* the cluster held then), rawat (where each raw read was made, and where  *)
(* the control block then held ended and how many raw reads had followed  *)
(* it; blockend and rawsince are that end and that count).                 *)
(***************************************************************************)
\* self.compressionswitch == 0: a 1-tuple never equals 0
Uncompressed(s) == ~s.compressionswitch.tuple /\ s.compressionswitch.v = 0

\* the bytes of an 8-byte read appended to the cluster (lines 468-470)
Refill(s) ==
    LET r == read(s, 8)
    IN IF r.exc # "" THEN r ELSE
       [r EXCEPT !.cluster.v = s.cluster.v \o r.buf, !.refills = @ + 1,
                 !.blocks = Append(@, [at |-> s.pos, held |-> Len(s.cluster.v),
                                       bytes |-> r.buf]),
                 !.blockend = r.pos, !.rawsince = 0]

\* a raw 8-byte read for a cell
rawread(s) ==
    [read(s, 8) EXCEPT !.raws = @ + 1,
                       !.rawat = Append(@, [at |-> s.pos, blockend |-> s.blockend,
                                            k |-> s.rawsince]),
                       !.rawsince = @ + 1]

\* a pop that refills the cluster while a control byte is still pending
PopClusterEager(s) ==
    LET a == IF Len(s.cluster.v) <= 1 THEN Refill(s) ELSE s
    IN IF ~s.cluster.set THEN Raise(s, "AttributeError")
       ELSE IF a.exc # "" THEN a
       ELSE IF Len(a.cluster.v) = 0 THEN Raise(a, "IndexError")
       ELSE [a EXCEPT !.ret = a.cluster.v[1], !.cluster.v = Tail(a.cluster.v),
                      !.popped = Append(@, a.cluster.v[1])]

\* lines 467-471 and 502-506: refill the cluster when it is empty, then pop(0).
\* len(self.cluster) raises AttributeError while GetData has not assigned the
\* attribute.
PopCluster(s) ==
    LET a == IF Len(s.cluster.v) = 0 THEN Refill(s) ELSE s
    IN IF ~s.cluster.set THEN Raise(s, "AttributeError")
       ELSE IF a.exc # "" THEN a
       ELSE IF Len(a.cluster.v) = 0 THEN Raise(a, "IndexError")
       ELSE [a EXCEPT !.ret = a.cluster.v[1], !.cluster.v = Tail(a.cluster.v),
                      !.popped = Append(@, a.cluster.v[1])]

\* return self.SYSMIS: AttributeError while the attribute does not exist
ReturnSYSMIS(s) ==
    IF s.SYSMIS.set THEN [s EXCEPT !.val = PyFloat(s.SYSMIS.v)]
    ELSE Raise(s, "AttributeError")

\* a raw 8-byte read decoded as a float (lines 461-465 and 477-481)
RawNumber(s) ==
    LET r == rawread(s)
    IN IF r.exc # "" THEN r
       ELSE IF Len(r.buf) < 1 THEN [r EXCEPT !.val = FalseStr, !.short = TRUE]
       ELSE IF pkflt(r.buf).tuple THEN [r EXCEPT !.val = PyFloat(pkflt(r.buf).v)]
       ELSE Raise(r, "TypeError")

\* line 472: the control bytes that are compact codes for a number
IsCompact(byte) == byte > 1 /\ byte < 252

\* an off-by-one bias
CompactValueOffByOne(byte) == byte - 99

\* line 473
CompactValue(byte) == byte - 100

\* lines 472-485: the branch on the control byte; a byte no branch takes
\* falls off the end of the method, which returns None
NumberOfByte(s, byte) ==
    IF IsCompact(byte) THEN [s EXCEPT !.val = PyInt(CompactValue(byte))]
    ELSE IF byte = 252 THEN [s EXCEPT !.val = FalseStr]
    ELSE IF byte = 253 THEN RawNumber(s)
    ELSE IF byte = 254 THEN [s EXCEPT !.val = PyFloat(Zero8)]
    ELSE IF byte = 255 THEN ReturnSYSMIS(s)
    ELSE [s EXCEPT !.val = PyNone]

GetNumber(s) ==
    IF ~HasAttr(s.compressionswitch) THEN Raise(s, "AttributeError")
    ELSE IF Uncompressed(s) THEN RawNumber(s)
    ELSE LET p == PopCluster(s)
         IN IF p.exc # "" THEN p ELSE NumberOfByte(p, p.ret)

\* line 517: the accumulated string is returned once it is this long
WidthReached(ln, typecode) == Len(ln) > typecode

\* the bytes a call of GetString can still pop: those held in the cluster and
\* those of the stream not yet read
BytesLeft(s) == Len(s.cluster.v) + Len(stream) - s.pos

\* lines 501-523: while 1, one pass of the loop per control byte.  s.passes
\* lists BytesLeft at the start of each pass.
RECURSIVE StringLoop(_, _, _)
StringLoop(s, ln, typecode) ==
    LET p == PopCluster([s EXCEPT !.passes = Append(@, BytesLeft(s))])
    IN IF p.exc # "" THEN p ELSE
    LET byte == p.ret
    IN IF byte > 0 /\ byte < 252 THEN [p EXCEPT !.val = PyInt(byte - 100)]
       ELSE IF byte = 252 THEN ReturnSYSMIS(p)
       ELSE IF byte = 253
         THEN LET r == rawread(p)
              IN IF r.exc # "" THEN r
                 ELSE IF Len(r.buf) < 1 THEN ReturnSYSMIS([r EXCEPT !.short = TRUE])
                 ELSE LET ln1 == ln \o pkstr(r.buf)
                      IN IF WidthReached(ln1, typecode) THEN [r EXCEPT !.val = PyStr(ln1)]
                         ELSE StringLoop([r EXCEPT !.acc = Append(@, Len(ln1))],
                                         ln1, typecode)
       ELSE IF byte = 254
         THEN IF ln # <<>> THEN [p EXCEPT !.val = PyStr(ln)]
              ELSE StringLoop([p EXCEPT !.acc = Append(@, Len(ln))], ln, typecode)
       ELSE IF byte = 255 THEN ReturnSYSMIS(p)
       ELSE StringLoop([p EXCEPT !.acc = Append(@, Len(ln))], ln, typecode)

GetString(s, var) ==
    IF ~HasAttr(s.compressionswitch) THEN Raise(s, "AttributeError")
    ELSE IF Uncompressed(s)
      THEN LET r == rawread(s)
           IN IF r.exc # "" THEN r
              ELSE IF Len(r.buf) < 1 THEN ReturnSYSMIS([r EXCEPT !.short = TRUE])
              ELSE [r EXCEPT !.val = PyStr(pkstr(r.buf))]
      ELSE StringLoop(s, <<>>, var.typecode)

\* N == "False"
IsFalseStr(v) == v.k = "str" /\ v.b = FalseStr.b

\* the value is appended to the first variable, whichever cell was read
StoreCellFirst(s, i) ==
    IF s.exc # "" THEN s
    ELSE IF IsFalseStr(s.val) THEN Raise(print(s, "Error returning case"), "SystemExit")
    ELSE [s EXCEPT !.variablelist[1].data = Append(@, s.val)]

\* lines 441-445 and 447-451: a returned "False" prints and exits, any other
\* value is appended to the variable's data
StoreCell(s, i) ==
    IF s.exc # "" THEN s
    ELSE IF IsFalseStr(s.val) THEN Raise(print(s, "Error returning case"), "SystemExit")
    ELSE [s EXCEPT !.variablelist[i].data = Append(@, s.val)]

(***************************************************************************)
(* GetRecords: the dispatcher, one step per record, and GetData, one step  *)
(* per cell                                                                *)
(***************************************************************************)
\* What the type-2 record whose tag is at offset p holds, read off the stream
\* at the fixed offsets of the format: "cont" for type code -1, "blank" for a
\* name of spaces only, else "var".
RecordKind(p) ==
    LET tc == Int32(SubSeq(stream, p + 5, p + 8))
        name == SubSeq(stream, p + 25, Min(p + 32, Len(stream)))
    IN IF tc = -1 THEN "cont"
       ELSE IF \A i \in 1..Len(name) : name[i] = 32 THEN "blank"
       ELSE "var"

\* the history entry of a completed call of GetRecordType2 that left r
HistEntry(p, r) ==
    [kind |-> RecordKind(p), tc |-> Int32(SubSeq(stream, p + 5, p + 8)),
     nvars |-> Len(r.variablelist), nraw |-> Len(r.rawvarlist)]

\* the names, in last.op and last.direct, of the direct calls of handlers
DirectOps ==
    {"call GetRecordType1", "call GetRecordType6", "call GetNumber", "call GetString"}

\* the assignments a step makes from the record r its handler returned
Commit(r, op, then) ==
    /\ pos' = r.pos
    /\ exc' = IF r.exc = "SIGKILL" THEN "" ELSE r.exc
    /\ pc' = IF r.exc = "" THEN then
             ELSE IF r.exc = "SystemExit" THEN "exit"
             ELSE IF r.exc = "SIGKILL" THEN "killed"
             ELSE "crashed"
    /\ compressionswitch' = r.compressionswitch
    /\ numcases' = r.numcases
    /\ compressionbias' = r.compressionbias
    /\ variablelist' = r.variablelist
    /\ rawvarlist' = r.rawvarlist
    /\ labelsets' = r.labelsets
    /\ documents' = r.documents
    /\ SYSMIS' = r.SYSMIS
    /\ variablesets' = r.variablesets
    /\ Other7' = r.Other7
    /\ cluster' = r.cluster
    /\ printed' = r.printed
    /\ hist' = IF op = "GetRecordType2" /\ r.exc = "" THEN Append(hist, HistEntry(pos, r))
               ELSE hist
    /\ last' = [op |-> op, pos0 |-> pos, popped |-> r.popped, refills |-> r.refills,
                raws |-> r.raws, short |-> r.short, val |-> r.val,
                appended |-> r.exc = "" /\ op \in {"GetNumber", "GetString"},
                nvars |-> Len(variablelist), nraw |-> Len(rawvarlist),
                nprinted |-> Len(printed), cell |-> vari + 1,
                pairs |-> r.pairs, inds |-> r.inds, shortint |-> r.shortint,
                direct |-> IF op \in DirectOps THEN Append(last.direct, op) ELSE last.direct,
                acc |-> r.acc, passes |-> r.passes, blocks |-> r.blocks, rawat |-> r.rawat,
                blockend |-> r.blockend, rawsince |-> r.rawsince,
                sets0 |-> [i \in 1..Len(variablelist) |-> variablelist[i].labelset]]
    /\ UNCHANGED <<input, stream, mem, getrow>>

\* lines 108-116: OpenFile, called on an object that holds no open file and
\* on which GetRow has not been called.  open() raises IOError for a file
\* that cannot be opened.
StepOpenFile ==
    /\ pc \in {"start", "done"}
    /\ ~fin
    /\ ~getrow.called
    /\ opens < MaxOpens
    /\ opens' = opens + 1
    /\ pc' = "start"
    /\ IF input.exists
         THEN /\ fin' = TRUE
              /\ pos' = 0
              /\ printed' = printed
         ELSE /\ fin' = FALSE
              /\ pos' = pos
              /\ printed' = Append(printed, "Cannot open file")
    /\ last' = [last EXCEPT !.op = "OpenFile"]
    /\ UNCHANGED <<input, stream, mem, exc, compressionswitch, numcases, compressionbias,
                   variablelist, rawvarlist, labelsets, documents, SYSMIS,
                   variablesets, Other7, cluster, casei, vari, closed, getrow, data0, hist>>

\* line 124: a call of GetRecords begins with GetRecordType1
StepHeader ==
    /\ pc \in {"start", "done"}
    /\ ~getrow.called
    /\ Commit(GetRecordType1(Cur), "GetRecordType1", "dict")
    /\ closed' = FALSE
    /\ data0' = [i \in 1..Len(variablelist) |-> Len(variablelist[i].data)]
    /\ UNCHANGED <<casei, vari, fin, opens>>

\* the tag read with a decoder that answers (0,) for a short read, so that
\* line 126 raises nothing at the end of the stream
TagZeroTuple ==
    LET r == read(Cur, 4)
    IN [r EXCEPT !.ret = pkintZeroTuple(r.buf).v]

\* line 126: IN = pkint(self.fin.read(4))[0]
Tag == readint(Cur)

\* line 126 at the end of the stream: TypeError
StepTagShort ==
    /\ pc = "dict"
    /\ Tag.exc # ""
    /\ Commit(Tag, "GetRecords", "dict")
    /\ UNCHANGED <<casei, vari, closed, fin, opens, data0>>

\* lines 127-129
StepType2 ==
    /\ pc = "dict"
    /\ Tag.exc = "" /\ Tag.ret = 2
    /\ Commit(GetRecordType2(Tag), "GetRecordType2", "dict")
    /\ UNCHANGED <<casei, vari, closed, fin, opens, data0>>

\* lines 130-132
StepType3 ==
    /\ pc = "dict"
    /\ Tag.exc = "" /\ Tag.ret = 3
    /\ Commit(GetRecordType3(Tag), "GetRecordType3", "dict")
    /\ UNCHANGED <<casei, vari, closed, fin, opens, data0>>

\* lines 133-135: pass
StepType6 ==
    /\ pc = "dict"
    /\ Tag.exc = "" /\ Tag.ret = 6
    /\ Commit(Tag, "Type6", "dict")
    /\ UNCHANGED <<casei, vari, closed, fin, opens, data0>>

\* lines 136-138
StepType7 ==
    /\ pc = "dict"
    /\ Tag.exc = "" /\ Tag.ret = 7
    /\ Commit(GetRecordType7(Tag), "GetRecordType7", "dict")
    /\ UNCHANGED <<casei, vari, closed, fin, opens, data0>>

\* a tag no branch of lines 127-139 takes: the loop reads the next 4 bytes
StepOtherTag ==
    /\ pc = "dict"
    /\ Tag.exc = "" /\ Tag.ret \notin {2, 3, 6, 7, 999}
    /\ Commit(Tag, "OtherTag", "dict")
    /\ UNCHANGED <<casei, vari, closed, fin, opens, data0>>

\* lines 437-438: self.cluster = [] and range(self.numcases[0])
GetDataStart(s) ==
    LET a == [s EXCEPT !.cluster = [set |-> TRUE, v |-> <<>>]]
    IN IF ~HasAttr(a.numcases) THEN Raise(a, "AttributeError")
       ELSE IF a.numcases.tuple THEN range(a, a.numcases.v)
       ELSE Raise(a, "TypeError")

\* lines 139-142: the terminator, its pad, and the entry into GetData
StepTerminator ==
    /\ pc = "dict"
    /\ Tag.exc = "" /\ Tag.ret = 999
    /\ Commit(GetDataStart(read(Tag, 4)), "Terminator", "data")
    /\ casei' = 0
    /\ vari' = 0
    /\ UNCHANGED <<closed, fin, opens, data0>>

\* lines 438-439: a cell is left to read
CellLeft == casei < numcases.v /\ Len(variablelist) > 0

\* the loop indexes after the cell of variable vari of case casei
NextCell ==
    IF vari + 1 < Len(variablelist)
      THEN /\ vari' = vari + 1
           /\ casei' = casei
      ELSE /\ vari' = 0
           /\ casei' = casei + 1

\* lines 440-445
StepNumber ==
    /\ pc = "data"
    /\ CellLeft
    /\ variablelist[vari + 1].typecode = 0
    /\ Commit(StoreCell(GetNumber(Cur), vari + 1), "GetNumber", "data")
    /\ NextCell
    /\ UNCHANGED <<closed, fin, opens, data0>>

\* lines 446-451
StepString ==
    /\ pc = "data"
    /\ CellLeft
    /\ variablelist[vari + 1].typecode > 0 /\ variablelist[vari + 1].typecode < 256
    /\ Commit(StoreCell(GetString(Cur, variablelist[vari + 1]), vari + 1),
              "GetString", "data")
    /\ NextCell
    /\ UNCHANGED <<closed, fin, opens, data0>>

\* a type code neither branch of lines 440 and 446 takes: no cell is read
StepNoCell ==
    /\ pc = "data"
    /\ CellLeft
    /\ variablelist[vari + 1].typecode < 0 \/ variablelist[vari + 1].typecode >= 256
    /\ Commit(Cur, "NoCell", "data")
    /\ NextCell
    /\ UNCHANGED <<closed, fin, opens, data0>>

\* lines 143-145: GetData has returned
StepClose ==
    /\ pc = "data"
    /\ ~CellLeft
    /\ Commit(Cur, "Close", "done")
    /\ closed' = TRUE
    /\ fin' = FALSE
    /\ UNCHANGED <<casei, vari, opens, data0>>

\* row > self.numcases: an int against what pkint returned.  Python 2 orders
\* an int before any tuple, so the test is true only against the int 0 of a
\* failed pkint.  On an object GetRecordType1 has not run on, the attribute
\* does not exist and reading it raises AttributeError.
RowAboveNumcases(s, row) ==
    IF ~HasAttr(s.numcases) THEN "AttributeError"
    ELSE IF ~s.numcases.tuple /\ row > s.numcases.v THEN "True"
    ELSE "False"

\* lines 645-647: variable.data[ind] for each variable, ind its position in
\* variablelist
RECURSIVE RowLoop(_, _, _)
RowLoop(s, ind, acc) ==
    IF ind >= Len(s.variablelist) THEN [k |-> "list", v |-> acc]
    ELSE LET j == PyIndex(Len(s.variablelist[ind + 1].data), ind)
         IN IF j = 0 THEN [k |-> "IndexError", v |-> <<>>]
            ELSE RowLoop(s, ind + 1, Append(acc, s.variablelist[ind + 1].data[j]))

\* GetRow(row): None, the list built by the loop, or the exception it raises
GetRow(s, row) ==
    IF row < 0 THEN RowNone
    ELSE IF RowAboveNumcases(s, row) = "AttributeError"
      THEN [k |-> "AttributeError", v |-> <<>>]
    ELSE IF RowAboveNumcases(s, row) = "True" THEN RowNone
    ELSE RowLoop(s, 0, <<>>)

\* a call of GetRow on an object that is not in a decode: one never decoded,
\* or the one a completed decode left
StepGetRow ==
    /\ pc \in {"start", "done"}
    /\ \E row \in (-1)..(MaxCases + 1) :
          /\ getrow' = [called |-> TRUE, row |-> row, ret |-> GetRow(Cur, row)]
          /\ last' = [last EXCEPT !.op = "GetRow"]
    /\ UNCHANGED <<input, stream, mem, fin, pos, pc, opens, exc, compressionswitch, numcases,
                   compressionbias, variablelist, rawvarlist, labelsets, documents,
                   SYSMIS, variablesets, Other7, cluster, casei, vari, closed,
                   printed, data0, hist>>

(***************************************************************************)
(* The handlers are public methods: a caller can call them on the object   *)
(* itself instead of GetRecords.  Modelled for an object GetRecords has    *)
(* not run on (a file may have been opened), MaxCalls calls at most; an    *)
(* exception a call raises is not caught.                                  *)
(***************************************************************************)
DirectCall ==
    /\ pc \in {"start", "direct"}
    /\ pc = "start" => ~HasAttr(numcases)
    /\ ~getrow.called
    /\ Len(last.direct) < MaxCalls

\* x.GetRecordType1()
StepCallType1 ==
    /\ DirectCall
    /\ Commit(GetRecordType1(Cur), "call GetRecordType1", "direct")
    /\ UNCHANGED <<casei, vari, closed, fin, opens, data0>>

\* x.GetRecordType6(): the handler of the document record, which GetRecords
\* does not call
StepCallType6 ==
    /\ DirectCall
    /\ Commit(GetRecordType6(Cur), "call GetRecordType6", "direct")
    /\ UNCHANGED <<casei, vari, closed, fin, opens, data0>>

\* x.GetNumber(): the value returned is last.val
StepCallGetNumber ==
    /\ DirectCall
    /\ Commit(GetNumber(Cur), "call GetNumber", "direct")
    /\ UNCHANGED <<casei, vari, closed, fin, opens, data0>>

\* x.GetString(var), var a variable of type code 1 or 8
StepCallGetString ==
    /\ DirectCall
    /\ \E tc \in {1, 8} :
          Commit(GetString(Cur, [typecode |-> tc]), "call GetString", "direct")
    /\ UNCHANGED <<casei, vari, closed, fin, opens, data0>>

Next ==
    \/ StepOpenFile
    \/ StepHeader
    \/ StepTagShort
    \/ StepType2
    \/ StepType3
    \/ StepType6
    \/ StepType7
    \/ StepOtherTag
    \/ StepTerminator
    \/ StepNumber
    \/ StepString
    \/ StepNoCell
    \/ StepClose
    \/ StepGetRow
    \/ StepCallType1
    \/ StepCallType6
    \/ StepCallGetNumber
    \/ StepCallGetString

(***************************************************************************)
(* The input files.  A file is described by a record                       *)
(*   [fam, comp, ncases, recs, term, data, cut]                            *)
(* (family, header compression flag, header case count, dictionary record  *)
(* descriptors, whether the 999 terminator is present, the bytes of the    *)
(* data section, the number of bytes cut off the end), and Encode gives    *)
(* its bytes in the layout of the file format.                             *)
(***************************************************************************)
LE32(n) == <<n % 256, (n \div 256) % 256, (n \div 65536) % 256, (n \div 16777216) % 256>>

RECURSIVE Cat(_)
Cat(ss) == IF ss = <<>> THEN <<>> ELSE ss[1] \o Cat(Tail(ss))

\* images of the doubles 1.0, 2.5, 100.0, -DBL_MAX, DBL_MAX and the next above -DBL_MAX
F1    == <<0, 0, 0, 0, 0, 0, 240, 63>>
F25   == <<0, 0, 0, 0, 0, 0, 4, 64>>
F100  == <<0, 0, 0, 0, 0, 0, 89, 64>>
FSys  == <<255, 255, 255, 255, 255, 255, 239, 255>>
FHigh == <<255, 255, 255, 255, 255, 255, 239, 127>>
FLow  == <<254, 255, 255, 255, 255, 255, 239, 255>>

Header(comp, ncases, bias) ==
    <<36, 70, 76, 50>> \o Rep(32, 60) \o LE32(2) \o LE32(1) \o LE32(comp)
      \o LE32(0) \o LE32(ncases) \o bias \o Rep(32, 84)

Pad(n, m) == IF n % m # 0 THEN n + m - (n % m) ELSE n

\* "V<i>" padded with spaces, or 8 spaces
NameOf(i, blank) == IF blank THEN Rep(32, 8) ELSE <<86, 48 + i>> \o Rep(32, 6)

\* a type-2 record: type code tc, a label of lab bytes (none when lab < 0),
\* missing-value marker mm with |mm| values
VarRec(d, i) ==
    LE32(2) \o LE32(d.tc) \o LE32(IF d.lab >= 0 THEN 1 ELSE 0) \o LE32(d.mm)
      \o <<0, 8, 5, 0>> \o <<0, 8, 5, 0>> \o NameOf(i, d.blank)
      \o (IF d.lab >= 0 THEN LE32(d.lab) \o Rep(76, Pad(d.lab, 4)) ELSE <<>>)
      \o Cat([j \in 1..Abs(d.mm) |-> <<j, 0, 0, 0, 0, 0, 240, 63>>])

ContRec == LE32(2) \o LE32(-1) \o Rep(0, 24)

\* a type-3 block of d.pairs pairs, each label d.l bytes long, then a block
\* tagged d.tag listing the raw indexes d.inds
LabelRec(d) ==
    LE32(3) \o LE32(d.pairs)
      \o Cat([j \in 1..d.pairs |-> F1 \o <<d.l>> \o Rep(65, Pad(d.l + 1, 8) - 1)])
      \o LE32(d.tag) \o LE32(Len(d.inds)) \o Cat([j \in 1..Len(d.inds) |-> LE32(d.inds[j])])

DocRec(d) == LE32(6) \o LE32(d.n) \o Rep(68, 80 * d.n)

ExtRec(d) == LE32(7) \o LE32(d.sub) \o LE32(d.width) \o LE32(d.count) \o d.payload

EncodeRec(d, i) ==
    CASE d.kind = "var" -> VarRec(d, i)
      [] d.kind = "cont" -> ContRec
      [] d.kind = "labels" -> LabelRec(d)
      [] d.kind = "doc" -> DocRec(d)
      [] d.kind = "ext" -> ExtRec(d)
      [] d.kind = "junk" -> LE32(d.tag)
      [] d.kind = "raw" -> d.bytes

Terminator == LE32(999) \o LE32(0)

Encode(f) ==
    LET all == Header(f.comp, f.ncases, f.bias)
                 \o Cat([i \in 1..Len(f.recs) |-> EncodeRec(f.recs[i], i)])
                 \o (IF f.term THEN Terminator ELSE <<>>) \o f.data
    IN SubSeq(all, 1, Len(all) - f.cut)

\* record descriptors
Var(tc, lab, mm, blank) == [kind |-> "var", tc |-> tc, lab |-> lab, mm |-> mm, blank |-> blank]
Cont == [kind |-> "cont"]
Labels(pairs, l, tag, inds) ==
    [kind |-> "labels", pairs |-> pairs, l |-> l, tag |-> tag, inds |-> inds]
Doc(n) == [kind |-> "doc", n |-> n]
Ext(sub, width, count, payload) ==
    [kind |-> "ext", sub |-> sub, width |-> width, count |-> count, payload |-> payload]
Junk(tag) == [kind |-> "junk", tag |-> tag]
Raw(bytes) == [kind |-> "raw", bytes |-> bytes]

Ints(ns) == Cat([j \in 1..Len(ns) |-> LE32(ns[j])])

NumVar  == Var(0, -1, 0, FALSE)
Str4Var == Var(4, -1, 0, FALSE)
Str8Var == Var(8, -1, 0, FALSE)
Ext74   == Ext(4, 8, 3, FSys \o FHigh \o FLow)

\* the records that are combined freely in the "dict" family
CoreRecs ==
    {NumVar, Var(12, -1, 0, FALSE), Var(12, -1, 0, TRUE), Cont,
     Labels(1, 7, 4, <<1>>), Labels(1, 7, 5, <<1>>),
     Ext(3, 4, 7, Ints(<<13, 2, 1, 1, 1, 1, 2>>))}

\* the records that appear alone, before or after a numeric variable
MoreRecs ==
    {Var(0, 3, 0, FALSE), Var(0, 5, 2, TRUE), Var(0, -1, 0, TRUE), Var(300, -1, 0, FALSE)}
    \cup {Var(0, -1, mm, FALSE) : mm \in {1, 2, 3, -2, -3}}
    \cup {Labels(2, 3, 4, <<1>>), Labels(1, 8, 4, <<1>>), Labels(1, 0, 4, <<1>>),
          Labels(1, 7, 4, <<1, 2>>), Labels(0, 7, 4, <<>>)}
    \cup {Doc(1), Junk(5), Ext74,
          Ext(3, 4, 8, Ints(<<13, 2, 1, 1, 1, 1, 2, 2>>)),
          Ext(4, 8, 2, FSys \o FHigh),
          Ext(4, 4, 3, Ints(<<1, 2, 3>>)),
          Ext(4, 8, 3, <<10, 0, 0, 0, 0, 0, 240, 63>> \o FHigh \o FLow),
          Ext(5, 1, 4, <<65, 61, 86, 49>>),
          Ext(6, 4, 6, Ints(<<0, 0, 0, 0, 0, 0>>)),
          Ext(6, 4, 9, Ints(<<0, 0, 1, 0, 0, 0, 1, 3, 1>>)),
          Ext(11, 4, 3, Ints(<<1, 8, 0>>)),
          Ext(11, 4, 6, Ints(<<1, 8, 0, 2, 8, 1>>)),
          Ext(13, 1, 5, <<86, 49, 61, 108, 49>>),
          Ext(7, 1, 4, <<1, 2, 3, 4>>)}

SeqsUpTo(S, n) == UNION {[1..k -> S] : k \in 0..n}

\* one block of compact codes, enough cells for every dictionary of the family
CodeBlock == <<101, 102, 103, 104, 105, 106, 107, 108>>

File(fam, comp, ncases, recs, term, data, cut) ==
    [fam |-> fam, comp |-> comp, ncases |-> ncases, recs |-> recs, term |-> term,
     data |-> data, cut |-> cut, bias |-> F100, exists |-> TRUE, mem |-> Mach16G]

DictFiles ==
    {File("dict", 1, 1, recs, TRUE, CodeBlock, 0) : recs \in SeqsUpTo(CoreRecs, MaxRecs)}
    \cup {File("dict", 1, 1, <<NumVar, r>>, TRUE, CodeBlock, 0) : r \in MoreRecs}
    \cup {File("dict", 1, 1, <<r, NumVar>>, TRUE, CodeBlock, 0) : r \in MoreRecs}

\* a cell of the compressed data section: its control byte and its raw block
Cell(code, raw) == [code |-> code, raw |-> raw]

\* the bytes of a run of cells: per 8 cells one block of control bytes
\* (padded with 0) followed by the raw blocks of those cells
RECURSIVE Compress(_)
Compress(cells) ==
    IF cells = <<>> THEN <<>>
    ELSE LET n == Min(8, Len(cells))
             blk == SubSeq(cells, 1, n)
         IN [j \in 1..8 |-> IF j <= n THEN blk[j].code ELSE 0]
              \o Cat([j \in 1..n |-> blk[j].raw])
              \o Compress(SubSeq(cells, n + 1, Len(cells)))

\* the bytes of a run of cells of an uncompressed data section
Uncompress(vals) == Cat(vals)

StrA == <<65, 66, 67, 68, 32, 32, 32, 32>>
StrB == <<69, 70, 71, 72, 73, 74, 75, 76>>

\* the well-formed cells of a numeric and of a string variable
NumCells(sysmis) ==
    <<Cell(105, <<>>), Cell(253, F25), Cell(254, <<>>)>>
      \o (IF sysmis THEN <<Cell(255, <<>>)>> ELSE <<>>)
StrCells == <<Cell(253, StrA), Cell(253, StrB), Cell(254, <<>>)>>

\* the raw values of the uncompressed form
NumVals == <<F1, F25, Zero8>>
StrVals == <<StrA, StrB, Rep(32, 8)>>

Pick(seq, i) == seq[(i % Len(seq)) + 1]

\* the cells of a data section of m cases of the variables recs, cell j
\* (0-based, in file order) taking value j + shift of its palette
CellsOf(recs, m, shift, sysmis) ==
    [j \in 1..(m * Len(recs)) |->
        LET v == recs[((j - 1) % Len(recs)) + 1]
        IN IF v.tc = 0 THEN Pick(NumCells(sysmis), j - 1 + shift)
           ELSE Pick(StrCells, j - 1 + shift)]

ValsOf(recs, m, shift) ==
    [j \in 1..(m * Len(recs)) |->
        LET v == recs[((j - 1) % Len(recs)) + 1]
        IN IF v.tc = 0 THEN Pick(NumVals, j - 1 + shift)
           ELSE Pick(StrVals, j - 1 + shift)]

VarSeqs == UNION {[1..k -> {NumVar, Str4Var, Str8Var}] : k \in 1..MaxVars}

\* N variables, perhaps a subtype-4 record, the terminator, N*M well-formed cells
CellFiles ==
    {File("cells", 1, m, (IF sysmis THEN <<Ext74>> ELSE <<>>) \o vs, TRUE,
          Compress(CellsOf(vs, m, shift, sysmis)), 0) :
        vs \in VarSeqs, m \in 0..MaxCases, shift \in 0..2, sysmis \in BOOLEAN}
    \cup {File("cells", 0, m, vs, TRUE, Uncompress(ValsOf(vs, m, shift)), 0) :
        vs \in VarSeqs, m \in 0..MaxCases, shift \in 0..2}

\* one variable, one case, and a control block that starts with any byte
SweepFiles ==
    {File("sweep", 1, 1, (IF sysmis THEN <<Ext74>> ELSE <<>>) \o <<v>>, TRUE,
          <<b, 0, 0, 0, 0, 0, 0, 0>> \o F25, 0) :
        b \in Byte, v \in {NumVar, Str4Var}, sysmis \in BOOLEAN}

\* two variables, two cases, and a control block that starts with MaxCtl
\* control bytes of every kind
CtlBytes == {0, 105, 252, 253, 254, 255}
CtlFiles ==
    {File("ctl", 1, 2, <<Ext74, v, NumVar>>, TRUE,
          [j \in 1..8 |-> IF j <= MaxCtl THEN c[j] ELSE 103] \o StrA \o StrB \o F25, 0) :
        c \in [1..MaxCtl -> CtlBytes], v \in {NumVar, Str4Var, Str8Var, Var(12, -1, 0, FALSE)}}

\* files that end early
CutFiles ==
    {File("cut", 1, 1, <<Ext74, v>>, TRUE, <<253, 253, 0, 0, 0, 0, 0, 0>> \o F25, cut) :
        v \in {NumVar, Str4Var}, cut \in 1..MaxCut}
    \cup {File("cut", 1, 1, <<NumVar, r>>, FALSE, <<>>, cut) :
        r \in {Var(0, 3, 1, FALSE), Cont, Labels(1, 7, 4, <<1>>), Ext74}, cut \in 0..MaxCut}

\* dictionaries whose index block names a slot behind a continuation slot or
\* behind a blank-named record
Str12Var == Var(12, -1, 0, FALSE)
LabelFiles ==
    {File("labels", 1, 1, recs, TRUE, CodeBlock, 0) :
        recs \in {<<Str12Var, Cont, NumVar, Labels(1, 7, 4, <<2>>)>>,
                  <<Str12Var, Cont, NumVar, Labels(1, 7, 4, <<3>>)>>,
                  <<NumVar, Str12Var, Cont, Labels(1, 7, 4, <<1, 3>>)>>,
                  <<Var(0, -1, 0, TRUE), NumVar, Labels(1, 7, 4, <<2>>)>>,
                  <<Var(0, -1, 0, TRUE), NumVar, NumVar, Labels(1, 7, 4, <<2>>)>>}}

\* images of the doubles 2.0 and 50.0
F2  == <<0, 0, 0, 0, 0, 0, 0, 64>>
F50 == <<0, 0, 0, 0, 0, 0, 73, 64>>

\* one numeric variable, two cases of compact codes, and a header that
\* declares a compression bias other than 100
BiasFiles ==
    {[File("bias", 1, 2, <<NumVar>>, TRUE, <<b1, b2, 0, 0, 0, 0, 0, 0>>, 0)
         EXCEPT !.bias = bias] :
        bias \in {Zero8, F1, F2, F50}, b1 \in {2, 105, 251}, b2 \in {100, 150}}

\* records whose counts ask read() for more bytes than the file holds, or
\* for more than can be allocated
SizeRecs ==
    {Ext(99, 1, 30001, <<1, 2, 3>>), Ext(99, 30001, 2, <<1, 2, 3>>),
     Ext(99, 65536, 65536, <<1, 2, 3>>), Ext(99, MaxInt, MaxInt, <<1, 2, 3>>),
     Ext(99, -3, 5, <<1, 2, 3>>), Ext(99, 0, MaxInt, <<1, 2, 3>>),
     Ext(5, 1, 30001, <<65, 66>>), Ext(5, 1, 1073741824, <<65, 66>>),
     Ext(13, 1, MaxInt, <<65, 66>>), Ext(11, 4, MaxInt, <<1, 0, 0, 0>>),
     Raw(LE32(3) \o LE32(300000000) \o F1 \o <<7>> \o Rep(65, 7)),
     Raw(LE32(3) \o LE32(0) \o LE32(4) \o LE32(300000000) \o LE32(1)),
     Raw(LE32(2) \o LE32(0) \o LE32(1) \o LE32(0) \o <<0, 8, 5, 0>> \o <<0, 8, 5, 0>>
           \o NameOf(1, FALSE) \o LE32(MaxInt) \o <<76, 76>>),
     Raw(LE32(2) \o LE32(0) \o LE32(1) \o LE32(0) \o <<0, 8, 5, 0>> \o <<0, 8, 5, 0>>
           \o NameOf(1, FALSE) \o LE32(MaxInt - 2) \o <<76, 76>>),
     Raw(LE32(2) \o LE32(0) \o LE32(0) \o LE32(-MaxInt - 1) \o <<0, 8, 5, 0>>
           \o <<0, 8, 5, 0>> \o NameOf(1, FALSE) \o F1),
     Raw(LE32(2) \o LE32(0) \o LE32(0) \o LE32(268435456) \o <<0, 8, 5, 0>>
           \o <<0, 8, 5, 0>> \o NameOf(1, FALSE) \o F1),
     Raw(LE32(2) \o LE32(0) \o LE32(0) \o LE32(-268435456) \o <<0, 8, 5, 0>>
           \o <<0, 8, 5, 0>> \o NameOf(1, FALSE) \o F1),
     Raw(LE32(2) \o LE32(0) \o LE32(0) \o LE32(600000000) \o <<0, 8, 5, 0>>
           \o <<0, 8, 5, 0>> \o NameOf(1, FALSE) \o F1),
     Raw(LE32(2) \o LE32(0) \o LE32(0) \o LE32(-600000000) \o <<0, 8, 5, 0>>
           \o <<0, 8, 5, 0>> \o NameOf(1, FALSE) \o F1),
     Raw(LE32(3) \o LE32(520000000) \o F1 \o <<7>> \o Rep(65, 7))}

\* the machines the files of the "size" family are read on
Mems == {Mach1G, Mach16G, Mach47}

SizeFiles ==
    {[File("size", 1, 0, <<r>>, TRUE, <<>>, 0) EXCEPT !.mem = m] :
        r \in SizeRecs, m \in Mems}
    \cup {[File("size", 1, n, <<>>, TRUE, <<>>, 0) EXCEPT !.mem = m] :
        n \in {30001, 300000000, 520000000}, m \in Mems}

\* a file name that open() cannot open
MissingFiles ==
    {[File("missing", 1, 0, <<NumVar>>, TRUE, <<>>, 0) EXCEPT !.exists = FALSE]}

\* a header followed by what GetRecordType6 reads when it is called on the
\* object itself: a count of lines and the lines
DirectFiles ==
    {File("direct", 1, 0, <<Raw(LE32(n) \o Rep(65, 80 * n))>>, TRUE, <<>>, 0) : n \in 0..2}

Inputs ==
    DictFiles \cup CellFiles \cup SweepFiles \cup CtlFiles \cup CutFiles \cup LabelFiles
      \cup BiasFiles \cup SizeFiles \cup MissingFiles \cup DirectFiles

Init ==
    /\ input \in Inputs
    /\ stream = Encode(input)
    /\ mem = input.mem
    /\ fin = FALSE
    /\ pos = 0
    /\ pc = "start"
    /\ opens = 0
    /\ exc = ""
    /\ compressionswitch = NoAttr
    /\ numcases = NoAttr
    /\ compressionbias = <<>>
    /\ variablelist = <<>>
    /\ rawvarlist = <<>>
    /\ labelsets = <<>>
    /\ documents = <<>>
    /\ SYSMIS = Unset
    /\ variablesets = Unset
    /\ Other7 = Unset
    /\ cluster = Unset
    /\ casei = 0
    /\ vari = 0
    /\ closed = FALSE
    /\ printed = <<>>
    /\ getrow = [called |-> FALSE, row |-> 0, ret |-> RowNone]
    /\ data0 = <<>>
    /\ hist = <<>>
    /\ last = [op |-> "init", pos0 |-> 0, popped |-> <<>>, refills |-> 0, raws |-> 0,
               short |-> FALSE, val |-> PyNone, appended |-> FALSE, nvars |-> 0,
               nraw |-> 0, nprinted |-> 0, cell |-> 1, pairs |-> <<>>, inds |-> <<>>,
               shortint |-> FALSE, acc |-> <<>>, passes |-> <<>>, blocks |-> <<>>,
               direct |-> <<>>,
               rawat |-> <<>>,
               blockend |-> 0, rawsince |-> 0,
               sets0 |-> <<>>]

Spec == Init /\ [][Next]_vars

(***************************************************************************)
(* Properties                                                              *)
(***************************************************************************)
Terminal == pc \in {"done", "crashed", "exit", "killed"}

CellStep == last.op \in {"GetNumber", "GetString"}

\* the files of N non-blank variable records, the terminator and N*M
\* well-formed cells, and nothing else
BoundaryFile ==
    /\ input.fam = "cells"
    /\ \A i \in 1..Len(input.recs) : input.recs[i].kind = "var"

\* C1: when the decode of a file of N variable records, a terminator and N*M
\* well-formed cells has ended, variablelist holds the N variables in
\* declaration order and each has exactly M values.
C1_DictionaryDataBoundary ==
    (BoundaryFile /\ Terminal) =>
        /\ Len(variablelist) = Len(input.recs)
        /\ \A i \in 1..Len(variablelist) :
              /\ variablelist[i].name = NameOf(i, FALSE)
              /\ variablelist[i].typecode = input.recs[i].tc
              /\ Len(variablelist[i].data) = input.ncases

\* the compression flag GetRecordType1 read from the header is 0
HeaderFlagZero == compressionswitch.tuple /\ compressionswitch.v = 0

\* the j-th raw 8-byte cell of the data section of the input
RawCell(j) == SubSeq(input.data, 8 * (j - 1) + 1, 8 * j)

\* C2: with compression flag 0 every cell is one direct 8-byte read (the
\* cursor advances by 8, the cluster is neither refilled nor popped), and an
\* uncompressed file decodes to the values embedded in it.
C2_UncompressedBypass ==
    /\ (HeaderFlagZero /\ CellStep) =>
          /\ last.popped = <<>>
          /\ last.refills = 0
          /\ pos = last.pos0 + 8
    /\ (BoundaryFile /\ input.comp = 0 /\ Terminal) =>
          /\ Len(variablelist) = Len(input.recs)
          /\ \A i \in 1..Len(variablelist) :
                /\ Len(variablelist[i].data) = input.ncases
                /\ \A c \in 1..Len(variablelist[i].data) :
                      LET raw == RawCell((c - 1) * Len(input.recs) + i)
                      IN variablelist[i].data[c] =
                            IF input.recs[i].tc = 0 THEN PyFloat(raw) ELSE PyStr(raw)

\* C3: a control byte b in 2..251 popped by GetNumber decodes to b - 100
\* exactly, without a raw 8-byte read for the cell.
C3_CompactNumericCode ==
    (/\ last.op = "GetNumber"
     /\ Len(last.popped) = 1
     /\ last.popped[1] >= 2 /\ last.popped[1] <= 251) =>
        /\ exc = ""
        /\ last.val = PyInt(last.popped[1] - 100)
        /\ last.raws = 0
        /\ last.appended

\* GetNumber popped the last compact code, 251, and returned 151
C3_Witness ==
    /\ last.op = "GetNumber"
    /\ last.popped = <<251>>
    /\ last.val = PyInt(151)

\* C4: whatever control byte GetNumber pops, the outcome is one of: the
\* compact value, end of data, a raw float read from the next 8 bytes, 0.0,
\* the system-missing value.
C4_SentinelExhaustive ==
    (last.op = "GetNumber" /\ Len(last.popped) = 1) =>
        LET b == last.popped[1]
        IN \/ exc = "" /\ b >= 2 /\ b <= 251 /\ last.val = PyInt(b - 100)
           \/ exc = "SystemExit" /\ IsFalseStr(last.val)
           \/ exc = "" /\ last.raws = 1 /\ last.val.k = "float"
           \/ exc = "" /\ last.val = PyFloat(Zero8)
           \/ exc = "" /\ SYSMIS.set /\ last.val = PyFloat(SYSMIS.v)

\* the cell decode of the last step failed: it popped the end-of-data byte
\* 252, or a raw read found the stream exhausted
CellFailed ==
    /\ CellStep
    /\ \/ last.short
       \/ \E i \in 1..Len(last.popped) : last.popped[i] = 252

\* C5: a cell whose decode fails stops the read: no value is appended for it
\* and no later cell is read.
C5_FatalCellFailure ==
    CellFailed => (~last.appended /\ pc \in {"exit", "crashed"})

\* the message at place i of printed was printed by the last step
PrintedByLastStep(i) == last.nprinted < i

\* C6: once GetRecordType3 has found a tag other than 4 after the value
\* labels, nothing more is read: the step that reported it is the last one.
C6_Type4ErrorAborts ==
    \A i \in 1..Len(printed) :
        printed[i] = "Invalid subtype" =>
            (last.op = "GetRecordType3" /\ PrintedByLastStep(i))

\* hist[i] is a string variable record and hist[i+1..i+k] are continuation
\* records
StringRun(i, k) ==
    /\ i >= 1 /\ k >= 1 /\ i + k <= Len(hist)
    /\ hist[i].kind # "cont" /\ hist[i].tc > 0
    /\ \A j \in (i + 1)..(i + k) : hist[j].kind = "cont"

VarsBefore(i) == IF i = 1 THEN 0 ELSE hist[i - 1].nvars
RawBefore(i) == IF i = 1 THEN 0 ELSE hist[i - 1].nraw

\* the string record hist[i] added one variable, and its own slot and its k
\* continuation slots map to that variable
FoldedOntoOwner(i, k) ==
    /\ hist[i].nvars = VarsBefore(i) + 1
    /\ hist[i].nraw = RawBefore(i) + 1
    /\ rawvarlist[hist[i].nraw] = hist[i].nvars
    /\ \A j \in (i + 1)..(i + k) :
          /\ hist[j].nraw = hist[j - 1].nraw + 1
          /\ rawvarlist[hist[j].nraw] = hist[i].nvars

\* a continuation record handled while rawvarlist was empty recorded None
FirstContinuationNone ==
    \A j \in 1..Len(hist) :
        (hist[j].kind = "cont" /\ RawBefore(j) = 0) => rawvarlist[1] = NoneIdx

\* C7 as stated: every string variable record followed by k >= 1
\* continuation records adds exactly one logical variable, to which its own
\* slot and the k continuation slots map; a continuation with no previous
\* raw index records None.
C7_ContinuationFolding ==
    /\ \A i \in 1..Len(hist) : \A k \in 1..Len(hist) :
          StringRun(i, k) => FoldedOntoOwner(i, k)
    /\ FirstContinuationNone

\* C7 as amended: the folding holds for a string record whose name is not
\* blank; a blank-named string record adds neither a variable nor a raw slot,
\* and the continuation slots after it repeat the raw index recorded before
\* it (None when there is none).
C7_ContinuationFoldingNonBlank ==
    /\ \A i \in 1..Len(hist) : \A k \in 1..Len(hist) :
          StringRun(i, k) =>
              IF hist[i].kind = "var" THEN FoldedOntoOwner(i, k)
              ELSE /\ hist[i].nvars = VarsBefore(i)
                   /\ hist[i].nraw = RawBefore(i)
                   /\ \A j \in (i + 1)..(i + k) :
                         /\ hist[j].nraw = hist[j - 1].nraw + 1
                         /\ rawvarlist[hist[j].nraw] =
                               IF RawBefore(i) = 0 THEN NoneIdx
                               ELSE rawvarlist[RawBefore(i)]
    /\ FirstContinuationNone

\* a non-blank string variable and two continuation slots folded onto it
C7_Witness ==
    /\ Len(hist) = 3
    /\ StringRun(1, 2) /\ hist[1].kind = "var"
    /\ rawvarlist = <<1, 1, 1>>
    /\ Len(variablelist) = 1

\* the missing-value marker field of the type-2 record the last step handled
MarkerField == Int32(SubSeq(stream, last.pos0 + 13, last.pos0 + 16))

\* the last step was a call of GetRecordType2 that registered a variable
RegisteredVariable ==
    /\ last.op = "GetRecordType2"
    /\ exc = ""
    /\ Len(variablelist) = last.nvars + 1

IsFloat(v) == Len(v) = 8

\* C8: the variable GetRecordType2 registers has the missing-value shape its
\* marker selects: 0 none; -2 a range of two floats and no discrete value; -3
\* that range and one discrete float; 1, 2, 3 that many discrete floats and
\* no range.
C8_MissingValueShapes ==
    RegisteredVariable =>
        LET v == variablelist[Len(variablelist)]
            m == MarkerField
        IN /\ v.missingmarker = m
           /\ m = 0 => /\ v.missingd.k = "None"
                       /\ v.missingr = [k |-> "tuple", v |-> << <<>>, <<>> >>]
           /\ m \in {-2, -3} =>
                 /\ v.missingr.k = "tuple" /\ Len(v.missingr.v) = 2
                 /\ IsFloat(v.missingr.v[1]) /\ IsFloat(v.missingr.v[2])
           /\ m = -2 => v.missingd = [k |-> "list", v |-> <<>>]
           /\ m = -3 => /\ v.missingd.k = "float"
                        /\ Len(v.missingd.v) = 1 /\ IsFloat(v.missingd.v[1])
           /\ m \in {1, 2, 3} =>
                 /\ v.missingd.k = "list" /\ Len(v.missingd.v) = m
                 /\ \A i \in 1..m : IsFloat(v.missingd.v[i])
                 /\ v.missingr.k = "None"

\* a variable with marker -3 was registered with a range and a discrete value
C8_Witness ==
    /\ RegisteredVariable
    /\ MarkerField = -3
    /\ variablelist[Len(variablelist)].missingr.k = "tuple"
    /\ variablelist[Len(variablelist)].missingd.k = "float"

\* C9: a blank-named type-2 record leaves variablelist as it was, and
\* variablelist is as long as the number of type-2 records handled that were
\* neither continuation slots nor blank-named.
C9_BlankNameSuppression ==
    /\ Len(variablelist) = Cardinality({i \in 1..Len(hist) : hist[i].kind = "var"})
    /\ \A i \in 1..Len(hist) :
          hist[i].kind = "blank" => hist[i].nvars = VarsBefore(i)

\* three type-2 records were handled: a variable, a blank-named record and
\* another variable
C9_Witness ==
    /\ Len(hist) = 3
    /\ hist[1].kind = "var" /\ hist[2].kind = "blank" /\ hist[3].kind = "var"
    /\ Len(variablelist) = 2

\* C10: once GetType73 or GetType74 has rejected the shape of its record,
\* nothing more is read: the step that reported it is the last one.
C10_ShapeErrorAborts ==
    \A i \in 1..Len(printed) :
        printed[i] \in {"Error reading type 7/3", "Error reading type 7/4"} =>
            (last.op = "GetRecordType7" /\ PrintedByLastStep(i))

\* the 999 tag lies among the bytes consumed
TerminatorConsumed ==
    \E p \in 0..(pos - 4) : Int32(SubSeq(stream, p + 1, p + 4)) = 999

\* the terminator consumed, every case of the data matrix read, the stream
\* closed and released
NormalCompletion ==
    /\ pc = "done" /\ exc = ""
    /\ TerminatorConsumed
    /\ ~CellLeft
    /\ closed /\ ~fin

\* an error ended the read before GetData returned: an exception or
\* sys.exit, or the operating system killed the process for the memory a
\* count of the file made it fill (no exception); the stream was not closed
Aborted ==
    /\ \/ pc \in {"crashed", "exit"} /\ exc # ""
       \/ pc = "killed" /\ exc = ""
    /\ ~closed

\* the phase of the decode: header, dictionary loop, data matrix, ended
Phase ==
    CASE pc = "start" -> 3
      [] pc = "dict" -> 2
      [] pc = "data" -> 1
      [] OTHER -> 0

\* what is left within the phase: bytes of the stream in the header and the
\* dictionary loop, cells of the matrix in GetData
Within ==
    IF pc \in {"start", "dict"} THEN Len(stream) - pos
    ELSE IF pc = "data" /\ CellLeft
      THEN (numcases.v - casei) * Len(variablelist) - vari
    ELSE 0

\* the pair <<Phase, Within>> decreases in the lexicographic order
RankDecreases ==
    \/ Phase' < Phase
    \/ Phase' = Phase /\ Within' < Within

\* the while loop of GetString (lines 501-523): the bytes left to pop,
\* counted at the start of each pass of the last call, decrease from pass to
\* pass and are never negative, and the call leaves no more than the last
\* pass found
StringLoopDescends ==
    last.op = "GetString" =>
        /\ \A i \in 1..Len(last.passes) : last.passes[i] >= 0
        /\ \A i \in 1..(Len(last.passes) - 1) : last.passes[i + 1] < last.passes[i]
        /\ Len(last.passes) > 0 => BytesLeft(Cur) <= last.passes[Len(last.passes)]

\* C11: every decode terminates, and when it has ended it has ended in
\* exactly one of two ways: normal completion, or an error that aborted the
\* read.  Termination: every step of a decode that has not ended decreases
\* <<Phase, Within>>, which is bounded below (OpenFile, GetRow and the direct
\* calls of handlers are no steps of a decode), and within the step of a string cell every pass of
\* the while loop decreases the bytes left to pop, which are bounded below.
\* (The dictionary loop ends on exhaustion because the tag read raises
\* TypeError, the string-cell loop because the pop of an empty cluster raises
\* IndexError.)
C11_Termination ==
    /\ [][(~Terminal /\ last'.op \notin {"OpenFile", "GetRow"} \cup DirectOps)
              => RankDecreases]_vars
    /\ [](Within >= 0)
    /\ []StringLoopDescends
    /\ [](Terminal => (NormalCompletion # Aborted))

\* the string-cell loop ran to the end of the stream, pass after pass, and
\* ended there
C11_Witness ==
    /\ last.op = "GetString" /\ exc = "IndexError"
    /\ pos = Len(stream)
    /\ Len(last.popped) >= 8
    /\ Len(last.passes) > 8

\* GetData reads a cell for a variable of this type code
CellType(tc) == tc >= 0 /\ tc < 256

\* the data of a variable that both states have differs, or a variable that
\* is new comes with data
DataChanged ==
    \/ \E i \in 1..Min(Len(variablelist), Len(variablelist')) :
          variablelist'[i].data # variablelist[i].data
    \/ \E i \in (Len(variablelist) + 1)..Len(variablelist') :
          variablelist'[i].data # <<>>

\* the values variable i held when the decode began
Data0(i) == IF i <= Len(data0) THEN data0[i] ELSE 0

\* the step appended one value to the variable whose cell was next, as the
\* value of the case being read, and left the data of the others alone
AppendedInTurn ==
    /\ Len(variablelist') = Len(variablelist)
    /\ Len(variablelist[vari + 1].data) = Data0(vari + 1) + casei
    /\ \A i \in 1..Len(variablelist) :
          variablelist'[i].data =
             IF i = vari + 1 THEN Append(variablelist[i].data, last'.val)
             ELSE variablelist[i].data

\* the dictionary part of C12: variables are appended to variablelist only by
\* a step of the dictionary loop, before the terminator is consumed; data are
\* appended only by a step of GetData, after it, each append one value for
\* the variable whose turn it is; the number of variables does not change
\* once GetData has started; no variable holds a value of this decode while
\* the dictionary loop runs
OrderOfAppends ==
    /\ [][/\ Len(variablelist') # Len(variablelist) => pc = "dict" /\ pc' # "data"
          /\ pc \in {"data", "done"} => Len(variablelist') = Len(variablelist)
          /\ DataChanged => pc = "data" /\ AppendedInTurn]_vars
    /\ [](pc = "dict" =>
             \A i \in 1..Len(variablelist) : Len(variablelist[i].data) = Data0(i))

\* the values of this decode that variable i holds when it has been given one
\* per case: casei, and one more for the variables up to the cursor
OnePerCase(i) ==
    Len(variablelist[i].data) = Data0(i) + casei + (IF i <= vari THEN 1 ELSE 0)

\* C12 as stated: the order of the appends, and values are appended one per
\* case per variable in registry order, for every variable of variablelist.
C12_DictionaryThenData ==
    /\ OrderOfAppends
    /\ [](pc \in {"data", "done"} => \A i \in 1..Len(variablelist) : OnePerCase(i))

\* C12, amended: the order of the appends, and values are appended one per
\* case, in registry order, per variable whose type code is 0..255; a
\* variable registered with any other type code is passed over by lines 440
\* and 446 and is given no value.
C12_DictionaryThenDataCells ==
    /\ OrderOfAppends
    /\ [](pc \in {"data", "done"} =>
             \A i \in 1..Len(variablelist) :
                 IF CellType(variablelist[i].typecode) THEN OnePerCase(i)
                 ELSE Len(variablelist[i].data) = Data0(i))

\* a decode of one case has ended with one value for the numeric variable
\* and none for the variable registered with type code 300
C12_Witness ==
    /\ pc = "done" /\ casei = 1
    /\ Len(variablelist) = 2
    /\ variablelist[1].typecode = 0 /\ Len(variablelist[1].data) = 1
    /\ variablelist[2].typecode = 300 /\ Len(variablelist[2].data) = 0

\* the last step was a step of the dictionary loop in which a read for a
\* 4-byte integer field found fewer than 4 bytes left
ShortIntegerRead ==
    /\ last.op \in {"GetRecords", "GetRecordType2", "GetRecordType3", "GetRecordType7"}
    /\ last.shortint

\* C13: when the stream runs out under a 4-byte integer field of the
\* dictionary, nothing is raised: the step ends without an exception and the
\* dictionary loop goes on.
C13_ShortIntegerIsSentinel ==
    ShortIntegerRead => (exc = "" /\ pc = "dict")

\* C14: after a completed decode with M declared cases, GetRow(r) returns
\* None for r < 0 and for r >= M, and for r in range the list of the r-th
\* value of every variable, in registry order.
C14_RowAccessor ==
    (pc = "done" /\ getrow.called) =>
        IF getrow.row < 0 \/ getrow.row >= numcases.v
          THEN getrow.ret = RowNone
          ELSE /\ getrow.ret.k = "list"
               /\ Len(getrow.ret.v) = Len(variablelist)
               /\ \A i \in 1..Len(variablelist) :
                     /\ Len(variablelist[i].data) > getrow.row
                     /\ getrow.ret.v[i] = variablelist[i].data[getrow.row + 1]

\* the 4-byte integer field at offset off of the record the last step handled
\* (offset 0 is the record tag)
Field(off) == Int32(SubSeq(stream, last.pos0 + off + 1, last.pos0 + off + 4))

\* the length of a type-2 record after its tag, from its own fields: the 28
\* fixed bytes, the label length and the padded label when the label marker
\* is 1, and 8 bytes per missing-value element
\* (a label longer than the stream counts as one that ends behind it)
Type2Length ==
    IF Field(4) = -1 THEN 28
    ELSE 28 + (IF Field(8) = 1 THEN 4 + Pad(Min(Field(32), Len(stream) + 4), 4) ELSE 0)
            + 8 * Min(Abs(Field(12)), 4)

\* C15: a call of GetRecordType2 that returns has advanced the cursor by
\* exactly the length of its record, for every label, name and missing-value
\* marker in {0, 1, 2, 3, -2, -3}.
C15_Type2ExactConsumption ==
    (/\ last.op = "GetRecordType2" /\ exc = ""
     /\ Field(4) = -1 \/ Field(12) \in {0, 1, 2, 3, -2, -3}) =>
        pos = last.pos0 + 4 + Type2Length

\* C16: when the dictionary loop has read record tag 6, the step has consumed
\* the line count and 80 bytes per line, the lines are the document text, and
\* the next tag is read from the first byte after the block.
C16_DocumentsConsumed ==
    last.op = "Type6" =>
        /\ exc = ""
        /\ pos = last.pos0 + 8 + 80 * Field(4)
        /\ documents = SubSeq(stream, last.pos0 + 9, last.pos0 + 8 + 80 * Field(4))

\* the payload size a type-7 record declares: element width times count
Type7Size == ReadSize(Field(8), Field(12))
Type7Payload == Small(Type7Size.mag)

\* the last step was a call of GetRecordType7 that returned, on a record that
\* lies within the stream
Type7Handled ==
    /\ last.op = "GetRecordType7" /\ exc = ""
    /\ ~Type7Size.neg
    /\ last.pos0 + 16 <= Len(stream)
    /\ MagLE(Type7Size.mag, Mag3(Len(stream) - last.pos0 - 16) \o <<0, 0, 0>>, 6)

\* C17: GetRecordType7 advances the cursor by exactly 12 + width * count
\* bytes after the record tag, whatever the subtype and whether or not the
\* shape is accepted; for a subtype other than 3, 4, 5, 6, 11, 13 the payload
\* is kept verbatim and the dictionary loop goes on.
C17_Type7ExactConsumption ==
    Type7Handled =>
        /\ pos = last.pos0 + 16 + Type7Payload
        /\ Field(4) \notin {3, 4, 5, 6, 11, 13} =>
              /\ Other7 = [set |-> TRUE,
                           v |-> SubSeq(stream, last.pos0 + 17, last.pos0 + 16 + Type7Payload)]
              /\ pc = "dict"

\* C18: each {key, label} pair of a type-3 block whose length prefix is l
\* takes exactly 8 bytes for the key and, the prefix byte included, l rounded
\* up to a multiple of 8 for the label, for every l in 0..255: the cursor
\* after the pair is that far from the cursor before it.
C18_LabelPairConsumption ==
    last.op = "GetRecordType3" =>
        \A i \in 1..Len(last.pairs) :
            LET pr == last.pairs[i]
            IN pr.from + 8 + Pad(pr.l, 8) <= Len(stream) =>
                  pr.to = pr.from + 8 + Pad(pr.l, 8)

\* the logical variable that owns dictionary slot i, the slots being the
\* type-2 records in file order: the variable a record registered, for a
\* continuation slot the owner of the slot before it, and 0 for a record
\* that registered none
RECURSIVE OwnerOf(_)
OwnerOf(i) ==
    IF i < 1 THEN 0
    ELSE IF hist[i].kind = "var" THEN hist[i].nvars
    ELSE IF hist[i].kind = "cont" THEN OwnerOf(i - 1)
    ELSE 0

\* C19: after a type-3/type-4 pair whose index block lists slots of the
\* dictionary that have an owner, each variable that owns a listed slot has
\* the block's values
\* and fields (the lists of the label set just created), and every other
\* variable has the label set it had before.
C19_LabelSetAttachment ==
    (/\ last.op = "GetRecordType3"
     /\ \A k \in 1..Len(last.inds) :
           last.inds[k] \in 1..Len(hist) /\ OwnerOf(last.inds[k]) # 0) =>
        /\ last.inds # <<>> => exc = ""
        /\ \A v \in 1..Len(variablelist) :
              IF \E k \in 1..Len(last.inds) : OwnerOf(last.inds[k]) = v
                THEN /\ variablelist[v].labelset = Len(labelsets)
                     /\ variablelist[v].labelvalues = labelsets[Len(labelsets)].values
                     /\ variablelist[v].labelfields = labelsets[Len(labelsets)].fields
                ELSE variablelist[v].labelset = last.sets0[v]

\* how many of the first j control bytes the last step popped are 253
Chunks(j) == Cardinality({i \in 1..j : last.popped[i] = 253})

\* C20: in compressed mode GetString reads one raw 8-byte chunk per control
\* byte 253 and returns as soon as the accumulated length reaches the
\* variable's width, popping no further control byte; it returns on 254 with
\* a non-empty accumulator and on 252 and 255.  So no control byte but the
\* last one it popped is one on which it returns: a 253 before the last left
\* the accumulated length below the width, a 254 before the last found the
\* accumulator empty, and no 252 or 255 comes before the last.
C20_StringCellWidth ==
    (last.op = "GetString" /\ compressionswitch.tuple) =>
        /\ last.raws = Chunks(Len(last.popped))
        /\ \A j \in 1..(Len(last.popped) - 1) :
              LET b == last.popped[j]
              IN /\ b = 253 => last.acc[j] < variablelist[last.cell].typecode
                 /\ b = 254 => last.acc[j] = 0
                 /\ b \notin {252, 255}

\* the step being taken decodes a cell of a compressed data section
CompressedCellStep ==
    /\ pc = "data" /\ last'.op \in {"GetNumber", "GetString"}
    /\ compressionswitch.tuple

\* the bytes of the control blocks the step read, in the order read
BlocksRead(bs) == Cat([i \in 1..Len(bs) |-> bs[i].bytes])

\* C21: the cluster never holds more than 8 control bytes; a refill is one
\* read of (at most) 8 bytes at the cursor, made only when the cluster is
\* empty; the control bytes popped are, in order, the bytes the cluster held
\* followed by those of the blocks read, and what is left of them is the
\* cluster afterwards, the same for numeric and string cells; the raw block
\* of a 253 is read at the end of the control block held, past the raw
\* blocks already read for that control block (8 bytes each, but for one cut
\* short by the end of the stream).
C21_ClusterDiscipline ==
    /\ [](Len(cluster.v) <= 8)
    /\ [][CompressedCellStep =>
            /\ \A i \in 1..Len(last'.blocks) :
                  LET b == last'.blocks[i]
                  IN /\ b.held = 0
                     /\ Len(b.bytes) <= 8
                     /\ b.bytes = SubSeq(stream, b.at + 1, Min(b.at + 8, Len(stream)))
            /\ Len(last'.blocks) = last'.refills
            /\ cluster.v \o BlocksRead(last'.blocks) = last'.popped \o cluster'.v
            /\ \A i \in 1..Len(last'.rawat) :
                  LET w == last'.rawat[i]
                  IN /\ w.at >= w.blockend
                     /\ w.at <= w.blockend + 8 * w.k
                     /\ w.at + 8 <= Len(stream) => w.at = w.blockend + 8 * w.k]_vars

\* GetNumber popped a 253 from the cluster an earlier cell had filled, and
\* read its raw block after the raw block that earlier cell had read
C21_Witness ==
    /\ last.op = "GetNumber" /\ exc = ""
    /\ last.popped = <<253>> /\ last.refills = 0
    /\ Len(last.rawat) = 1
    /\ last.rawat[1].k = 1
    /\ last.rawat[1].at = last.blockend + 8

RECURSIVE Pow2(_)
Pow2(n) == IF n <= 0 THEN 1 ELSE 2 * Pow2(n - 1)

\* the integer an 8-byte IEEE double image stands for, for the non-negative
\* integers below 4096 (sign 0, biased exponent in the top 11 bits, the
\* fraction in the next 12 bits, the rest 0)
IntOfFloat(bs) ==
    IF bs = Zero8 THEN 0
    ELSE LET e == (bs[8] % 128) * 16 + (bs[7] \div 16)
             m == 4096 + (bs[7] % 16) * 256 + bs[6]
         IN m \div Pow2(12 - (e - 1023))

\* C22: the value GetNumber decodes from a compact control byte is the byte
\* minus the compression bias GetRecordType1 read from the header, whatever
\* bias the header declares.
C22_CompressionBias ==
    (/\ last.op = "GetNumber" /\ exc = ""
     /\ Len(last.popped) = 1
     /\ last.popped[1] >= 2 /\ last.popped[1] <= 251) =>
        last.val = PyInt(last.popped[1] - IntOfFloat(compressionbias))

\* the last control byte the last step popped (0 when it popped none)
LastPopped == IF last.popped = <<>> THEN 0 ELSE last.popped[Len(last.popped)]

\* the cell decode of the last step came to a return of self.SYSMIS: control
\* byte 255 in GetNumber; 252, 255 or an exhausted raw read in GetString
SentinelCalledFor ==
    \/ last.op = "GetNumber" /\ compressionswitch.tuple /\ LastPopped = 255
    \/ last.op = "GetString" /\ (LastPopped \in {252, 255} \/ last.short)

\* C23: whenever a cell decode comes to yield the system-missing sentinel,
\* the sentinel has been set by a type-7 subtype-4 record consumed before,
\* and it is what the cell yields, whatever the dictionary held.
C23_SysmisDefinedBeforeUse ==
    SentinelCalledFor =>
        /\ SYSMIS.set
        /\ exc = ""
        /\ last.val = PyFloat(SYSMIS.v)

\* C24: every entry of rawvarlist is None or an integer in
\* 1..len(variablelist), the entries that are not None do not decrease in
\* slot order, and looking a recorded index up in variablelist (as lines
\* 269-270 do) finds the variable at that position.
C24_RawIndexInRange ==
    /\ \A i \in 1..Len(rawvarlist) :
          \/ rawvarlist[i] = NoneIdx
          \/ /\ rawvarlist[i] >= 1 /\ rawvarlist[i] <= Len(variablelist)
             /\ PyIndex(Len(variablelist), rawvarlist[i] - 1) = rawvarlist[i]
    /\ \A i \in 1..Len(rawvarlist) : \A j \in i..Len(rawvarlist) :
          (rawvarlist[i] # NoneIdx /\ rawvarlist[j] # NoneIdx) =>
              rawvarlist[i] <= rawvarlist[j]

\* a string variable, its continuation slot and a second variable have been
\* recorded
C24_Witness ==
    /\ rawvarlist = <<1, 1, 2>>
    /\ Len(variablelist) = 2
    /\ Len(hist) = 3 /\ hist[2].kind = "cont"

====
